---------------------------- MODULE Spec2Model ----------------------------
(***************************************************************************)
(* A model of the JARVISv4 ECF controller (backend/core/controller.py),   *)
(* its durable task store (backend/memory/working_state.py), the planner  *)
(* validation (backend/agents/planner/planner.py), the executor           *)
(* (backend/agents/executor/executor.py) and the workflow engine          *)
(* (backend/controller/engine/engine.py).                                  *)
(*                                                                         *)
(* One task is followed from run_task through process crashes and        *)
(* resume_task calls made by fresh controller instances.  Every store     *)
(* operation (update_task, complete_step, archive_task) is one atomic     *)
(* step (write-temp-then-rename); a crash can fall between any two.       *)
(*                                                                         *)
(* Abstractions.  Step descriptions are the naturals 1..n (0 is Python's  *)
(* None); plan step ids are 1..n in list order (0 is "no id").  Tool      *)
(* parameters, timestamps and durations are not modelled.  The artifact   *)
(* of a record is the description of the node whose invocation produced  *)
(* it (0 when there is no payload).  Error texts are tokens.              *)
(***************************************************************************)
EXTENDS Naturals, Integers, Sequences, FiniteSets, TLC

(***************************** bounds *************************************)
\* longest plan the generator returns when only run_task is followed (Spec)
MaxPlanLen == 3
\* longest plan the generator returns when crashes and resume_task calls
\* are followed as well (SpecResume)
MaxResumePlanLen == 2
\* number of resume_task calls followed in one behaviour (a crash is
\* followed only while a resume_task call can still come after it)
MaxResumes == 1
\* number of node executions that end FAILED in one behaviour
MaxFaults == 1
\* the task ids in the directory a supervisor scan reads
MaxTasks == 3
\* number of direct calls of the store followed in one behaviour
MaxStoreOps == 2
\* longest plan given to the planner's validation when generate_plan is
\* called directly
MaxGraphLen == 3
\* number of direct calls of call_tool and execute_step followed in one behaviour
MaxToolCalls == 2
\* number of goals given to orchestrate_task_batch, and its largest max_tasks
MaxGoals == 3
\* largest max_retries a generator client is built with
MaxRetries == 3
\* number of nodes registered with add_node when the engine is used directly
MaxNodes == 3

\* the longest plan followed when the order of the engine's node executions
\* is examined
MaxEnginePlanLen == 4
\* largest number of turns given to run_conversation_lifecycle
MaxTurns == 1
\* number of resume_task calls made one after the other on a task created
\* through the store
MaxChainedResumes == 2

(*************************** program constants ****************************)
MAX_PLANNED_STEPS == 100
MAX_EXECUTED_STEPS == 100

\* the caps as the class declares them; an instance can carry its own (the
\* code reads self.MAX_PLANNED_STEPS and self.MAX_EXECUTED_STEPS)
DefaultCaps == [planned |-> MAX_PLANNED_STEPS, executed |-> MAX_EXECUTED_STEPS]

\* the registered tool names (ECFController.__init__ registers the defaults)
RegisteredTools == {"text_output"}
\* a tool name the generator may answer that is not in the registry
UnknownTool == "ghost_tool"
\* max_steps=None, and max_steps=k
NoLimit == [limited |-> FALSE, n |-> 0]

Limit(k) == [limited |-> TRUE, n |-> k]

(***************************** task state *********************************)
NoStep == [set |-> FALSE, index |-> 0, description |-> 0]

CurrentStep(i, d) == [set |-> TRUE, index |-> i, description |-> d]

\* the state written by create_task for {"goal", "domain": "general",
\* "constraints": [], "next_steps": []}; a list of constraints is a number, 0 for []
NewTask ==
  [exists |-> TRUE, status |-> "CREATED", current_step |-> NoStep,
   completed_steps |-> << >>, next_steps |-> << >>,
   failure_cause |-> "absent", error |-> "absent",
   domain |-> "general", constraints |-> 0]

\* no file <task_id>.json in the working directory
NoFile == [NewTask EXCEPT !.exists = FALSE, !.status = "none"]

\* variant of UpdateTask that writes the patch over a fresh task state
UpdateTaskOverNew(d, updates) ==
  [k \in DOMAIN d |-> IF k \in DOMAIN updates THEN updates[k] ELSE NewTask[k]]

\* state.update(updates) followed by the atomic write; defined on an existing file
UpdateTask(d, updates) ==
  [k \in DOMAIN d |-> IF k \in DOMAIN updates THEN updates[k] ELSE d[k]]

\* complete_step: append the record, clear current_step, status IN_PROGRESS.
\* The controller's call also passes started_at, completed_at,
\* duration_ms_tool and duration_ms_wall, which the signature in
\* working_state.py does not declare (the controller uses further store
\* methods that file does not define either); the call is modelled as the
\* controller and its tests expect it to behave: the record is appended,
\* the timing fields are left out.
CompleteStep(d, step_index, outcome, artifact, tool_name) ==
  UpdateTask(d,
    [completed_steps |-> Append(d.completed_steps,
        [index |-> step_index, description |-> d.current_step.description,
         outcome |-> outcome, artifact |-> artifact, tool_name |-> tool_name]),
     current_step |-> NoStep,
     status |-> "IN_PROGRESS"])

\* variant of archive_task that writes no archived file
ArchiveTaskLost(arch, d, reason) == arch

\* variant of archive_task that rewrites the status of the file it archives
ArchiveTaskStamped(arch, d, reason) ==
  {a \in arch : a.reason # reason}
    \cup {[reason |-> reason, state |-> [d EXCEPT !.status = "ARCHIVED"]]}

\* archive_task: rename <task_id>.json to archive/<YYYY-MM>/<task_id>_<reason>.json
ArchiveTask(arch, d, reason) ==
  {a \in arch : a.reason # reason} \cup {[reason |-> reason, state |-> d]}

(******************************* plans ************************************)
\* one entry of the "tasks" list of a plan; its description is its id
PlanStep(i, deps) ==
  [id |-> i, description |-> i, dependencies |-> deps, tool |-> ""]

\* plans of n steps that list every step after its dependencies (the rule
\* SYSTEM_PROMPT gives the generator), and the invalid shapes: a step that
\* depends on itself, two steps that depend on each other, a dependency on
\* an id no step declares
PlanDepsOfLen(n) ==
  {f \in [1..n -> SUBSET (1..n)] : \A i \in 1..n : f[i] \subseteq 1..(i-1)}
  \cup {[i \in 1..n |-> IF i = k THEN {k} ELSE {}] : k \in 1..n}
  \cup {[i \in 1..n |-> IF i = k THEN {n+1} ELSE {}] : k \in 1..n}
  \cup {[i \in 1..n |-> IF i = n THEN {1} ELSE IF i = 1 THEN {n} ELSE {}] : k \in {1}}

PlansOfLen(n) ==
  {[i \in 1..n |-> PlanStep(i, f[i])] : f \in PlanDepsOfLen(n)}

PlansUpTo(cap) == UNION {PlansOfLen(n) : n \in 0..cap}

RECURSIVE has_cycle(_, _, _, _)
RECURSIVE VisitNeighbors(_, _, _, _)
\* the closure has_cycle(v) of _validate_plan with its visited and path sets
\* made explicit; the result carries the visited set back to the caller
has_cycle(adj, v, visited, path) ==
  VisitNeighbors(adj, adj[v], visited \cup {v}, path \cup {v})

\* the loop "for neighbor in adj.get(v, [])" over the neighbours not yet looked at
VisitNeighbors(adj, todo, visited, path) ==
  IF todo = {} THEN [found |-> FALSE, visited |-> visited]
  ELSE LET nb == CHOOSE x \in todo : TRUE IN
       IF nb \notin visited
       THEN LET r == has_cycle(adj, nb, visited, path) IN
            IF r.found THEN r
            ELSE VisitNeighbors(adj, todo \ {nb}, r.visited, path)
       ELSE IF nb \in path THEN [found |-> TRUE, visited |-> visited]
       ELSE VisitNeighbors(adj, todo \ {nb}, visited, path)

\* variant of CycleFromAny that starts the search at the first step only
CycleFromFirst(adj, todo, visited) ==
  IF todo = {} THEN FALSE
  ELSE has_cycle(adj, CHOOSE x \in todo : \A y \in todo : x <= y, visited, {}).found

RECURSIVE CycleFromAny(_, _, _)
\* the loop "for tid in task_ids: if tid not in visited: if has_cycle(tid)"
CycleFromAny(adj, todo, visited) ==
  IF todo = {} THEN FALSE
  ELSE LET tid == CHOOSE x \in todo : TRUE IN
       IF tid \in visited THEN CycleFromAny(adj, todo \ {tid}, visited)
       ELSE LET r == has_cycle(adj, tid, visited, {}) IN
            r.found \/ CycleFromAny(adj, todo \ {tid}, r.visited)

\* variant of validate_plan that raises for no plan
validate_plan_unchecked(tasks) == "ok"

\* _validate_plan: "ok" or the reason of the InvalidPlanError
validate_plan(tasks) ==
  LET task_ids == {tasks[i].id : i \in DOMAIN tasks}
      \* a dict comprehension: the last entry with an id wins
      last(t) == CHOOSE j \in DOMAIN tasks :
                   tasks[j].id = t /\ \A k \in DOMAIN tasks : k > j => tasks[k].id # t
      adj == [t \in task_ids |-> tasks[last(t)].dependencies]
  IN IF tasks = << >> THEN "no_tasks"
     ELSE IF \E t \in task_ids : \E dep \in adj[t] : dep \notin task_ids
          THEN "missing_dependency"
     ELSE IF CycleFromAny(adj, task_ids, {}) THEN "circular_dependencies"
     ELSE "ok"

(*************************** workflow nodes *******************************)
\* the node id f"step_{index}_{tool_name}"
NodeId(index, tool) == [index |-> index, tool |-> tool]

NoNode == NodeId(0, "")

\* id_mapping of _convert_plan_to_workflow_nodes: step id -> node id, built
\* from the pending steps before any tool is selected
IdMapping(next_steps) ==
  LET ids == {next_steps[k].id : k \in DOMAIN next_steps} \ {0}
      last(t) == CHOOSE j \in DOMAIN next_steps :
                   next_steps[j].id = t
                   /\ \A k \in DOMAIN next_steps : k > j => next_steps[k].id # t
  IN [t \in ids |->
        NodeId(last(t) - 1,
               IF next_steps[last(t)].tool = "" THEN "unknown" ELSE next_steps[last(t)].tool)]

\* the SimpleToolNode built for the pending step at list position k (index k-1)
MakeNode(next_steps, k, tool_name) ==
  LET step == next_steps[k]
      id_mapping == IdMapping(next_steps)
  IN [id |-> NodeId(k - 1, tool_name),
      description |-> step.description,
      tool_name |-> tool_name,
      dependencies |-> {id_mapping[dep] : dep \in step.dependencies \cap DOMAIN id_mapping}]

\* WorkflowEngine.add_node: self.nodes[node.id] = node (a dict keeps the
\* position of a key that is already present)
AddNode(ns, node) ==
  IF \E k \in DOMAIN ns : ns[k].id = node.id
  THEN [k \in DOMAIN ns |-> IF ns[k].id = node.id THEN node ELSE ns[k]]
  ELSE Append(ns, node)

NodeOf(ns, nid) == ns[CHOOSE k \in DOMAIN ns : ns[k].id = nid]

\* the ids of a list of nodes
IdsOf(ns) == [k \in DOMAIN ns |-> ns[k].id]

\* start_nodes of execute_workflow: the nodes with no dependencies, in dict order
StartNodes(ns) ==
  LET NoDeps(node) == node.dependencies = {} IN IdsOf(SelectSeq(ns, NoDeps))

\* next_nodes of _execute_linear_workflow: the nodes that depend on nid, in dict order
NextNodes(ns, nid) ==
  LET DependsOn(node) == nid \in node.dependencies IN IdsOf(SelectSeq(ns, DependsOn))

SeqToSet(q) == {q[k] : k \in DOMAIN q}

\* no tool is executing
NoInvocation == [node |-> NoNode, tool |-> ""]

\* the engine between two workflows
IdleEngine ==
  [mode |-> "none", current |-> NoNode, executed |-> {}, pending |-> {}, ready |-> {}]

(************************* direct store calls ******************************)
\* a file whose content is not complete JSON: json.load raises on it
TornFile == [NoFile EXCEPT !.exists = TRUE, !.status = "torn"]

\* no direct call of the store has been made
NoCall ==
  [op |-> "none", n |-> 0, args |-> << >>, before |-> NoFile, new |-> NoFile,
   result |-> "none", returned |-> NoFile]

(************************ direct planner calls *****************************)
\* no direct generate_plan call has been made
NoPlanning ==
  [stage |-> "idle", given |-> FALSE, domain |-> "general", constraints |-> 0,
   tasks |-> << >>, verdict |-> "none", named |-> 0, result |-> "none",
   before |-> NoFile]

(********************** the supervisor's view ******************************)
\* what the supervisor reads of one task id: where the file is ("NONE": no
\* such task), its status, whether current_step is set, whether the file's
\* age is at least min_age_seconds when the scan looks at it, and whether the
\* persisted next_steps carry their tools (FALSE: resume_task asks the generator)
DirEntry(lifecycle, status, has_current_step, old, resolved) ==
  [lifecycle |-> lifecycle, status |-> status, has_current_step |-> has_current_step,
   old |-> old, resolved |-> resolved]

\* no supervisor scan has been started
NoScan ==
  [stage |-> "idle", max_tasks |-> 0, summaries |-> << >>, pos |-> 0,
   resumed |-> << >>, dir0 |-> << >>]

(******************* direct registry and executor calls *******************)
\* no exception
NoError == [class |-> "none", name |-> "", kind |-> "none", text |-> "none"]

\* no call_tool or execute_step call has been made on a registry without tools
NoExe ==
  [op |-> "none", stage |-> "idle", n |-> 0, tools |-> {}, known |-> {},
   response |-> "none",
   name |-> "", params |-> << >>, generator_calls |-> 0, attempts |-> 0,
   executes |-> 0, thrown |-> "none", ended |-> "none", error |-> NoError,
   status |-> "none", tool |-> "", value |-> "none"]

(************************ orchestrate_task_batch ****************************)
\* no orchestrate_task_batch call has been made
NoBatch ==
  [stage |-> "idle", goals |-> 0, max_tasks |-> 0, pos |-> 0, task_ids |-> << >>,
   actions |-> << >>, stop_reason |-> "none", dir0 |-> << >>]

(*************************** OpenAIProvider ********************************)
\* no generate call has been made
NoLlm ==
  [stage |-> "idle", max_retries |-> 0, attempt |-> 0, requests |-> 0,
   log |-> << >>, waits |-> << >>, last_error |-> "none", result |-> "none",
   error |-> "none"]

VARIABLES
  disk,         \* the active file <task_id>.json (exists = FALSE: no such file)
  archive,      \* the archived files of the task: {[reason, state]}
  state,        \* ECFController.state of the controller instance in use
  pc,           \* position of the call in progress, "idle" when there is none
  ret,          \* how the last public call ended: "none", "returned", "raised", "crashed"
  run,          \* number of public calls started so far
  method,       \* the public call in progress: "run_task" or "resume_task"
  max_steps,    \* the max_steps argument of the call in progress
  plan,         \* the plan the planner validated for the task (<< >> before)
  planned,      \* planned_steps, the local list run_task resolves tools into
  pending,      \* next_steps as _convert_plan_to_workflow_nodes loaded it
  idx,          \* the loop index of the loop in progress
  nodes,        \* WorkflowEngine.nodes, in insertion order
  node_ids,     \* node_ids returned by _convert_plan_to_workflow_nodes
  node_results, \* WorkflowEngine.node_results: {[id, status, tool_name, error, payload]}
  wf,           \* the loop state of execute_workflow
  invoking,     \* the node and tool of the tool.execute call in progress
  invoked,      \* the nodes whose tool was started in this call
  last_error,   \* ECFController.last_error
  faults,       \* node executions that ended FAILED so far
  resumes,      \* resume_task calls so far
  plan_cap,     \* the longest plan followed in this behaviour
  dir,          \* the task directory the supervisor scans: task id -> DirEntry
  scan,         \* the supervisor_resume_stalled_tasks call (NoScan: none yet)
  tmp,          \* the temporary file <task_id>.tmp of update_task
  call,         \* the last direct call of the store: arguments and outcome
  planning,     \* the direct generate_plan call: arguments, response, outcome
  exe,          \* the registry, and the direct call_tool or execute_step call
  caps,         \* MAX_PLANNED_STEPS and MAX_EXECUTED_STEPS of the controller instance
  batch,        \* the orchestrate_task_batch call (NoBatch: none yet)
  llm           \* the generator client's generate call (NoLlm: none yet)

\* the variables of the direct calls of the registry and the executor, and
\* the caps, which no call changes
extra == << exe, caps, batch, llm >>

\* the variables the controller calls on one task do not touch
aux == << dir, scan, tmp, call, planning, extra >>

vars == << disk, archive, state, pc, ret, run, method, max_steps, plan, planned,
           pending, idx,
           nodes, node_ids, node_results, wf, invoking, invoked, last_error,
           faults, resumes, plan_cap, aux >>

\* the variables of one controller instance and its call in progress
local == << planned, pending, idx, nodes, node_ids, node_results, wf, invoking >>

Init ==
  /\ disk = NoFile
  /\ archive = {}
  /\ state = "INITIALIZING"
  /\ pc = "idle"
  /\ ret = "none"
  /\ run = 0
  /\ method = "none"
  /\ max_steps = NoLimit
  /\ plan = << >>
  /\ planned = << >>
  /\ pending = << >>
  /\ idx = 0
  /\ nodes = << >>
  /\ node_ids = << >>
  /\ node_results = {}
  /\ wf = IdleEngine
  /\ invoking = NoInvocation
  /\ invoked = {}
  /\ last_error = "none"
  /\ faults = 0
  /\ resumes = 0
  /\ plan_cap = MaxPlanLen
  /\ dir = << >>
  /\ scan = NoScan
  /\ tmp = NoFile
  /\ call = NoCall
  /\ planning = NoPlanning
  /\ exe = NoExe
  /\ caps = DefaultCaps
  /\ batch = NoBatch
  /\ llm = NoLlm

(************************ how a call ends *********************************)
\* "return task_id" (and resume_task's return with the task left active)
Return ==
  /\ pc' = "idle"
  /\ ret' = "returned"

\* variant of Escape in which run_task has no "except Exception" handler
EscapeUncaught(err) ==
  /\ pc' = "idle"
  /\ ret' = "raised"
  /\ UNCHANGED << state, last_error >>

\* an exception that reaches the top of the public call: run_task catches it
\* (except Exception), resume_task lets it escape to the caller
Escape(err) ==
  IF method = "run_task"
  THEN /\ state' = "FAILED"
       /\ last_error' = err
       /\ pc' = "err_update"
       /\ ret' = ret
  ELSE /\ pc' = "idle"
       /\ ret' = "raised"
       /\ UNCHANGED << state, last_error >>

\* variant of PlanningFails in which InvalidPlanError has no handler of its
\* own and reaches "except Exception"
PlanningFailsAsError(reason) ==
  /\ state' = "FAILED"
  /\ last_error' = reason
  /\ pc' = "err_update"

\* raise InvalidPlanError(reason) inside run_task's planning block
PlanningFails(reason) ==
  /\ state' = "FAILED"
  /\ last_error' = reason
  /\ pc' = "planfail_update"

(***************************** run_task ***********************************)
\* run_task up to the first await: state PLANNING, create_task
RunTask ==
  /\ pc = "idle"
  /\ run = 0
  /\ run' = 1
  /\ method' = "run_task"
  /\ max_steps' = NoLimit
  /\ state' = "PLANNING"
  /\ disk' = NewTask
  /\ pc' = "plan"
  /\ ret' = "none"
  /\ last_error' = "none"
  /\ invoked' = {}
  /\ UNCHANGED << archive, plan, local, faults, resumes, plan_cap, aux >>

\* generate_plan: the generator raises (LLMProviderError)
GeneratePlanRaises ==
  /\ pc = "plan"
  /\ Escape("generator_error")
  /\ UNCHANGED << disk, archive, run, method, max_steps, plan, local, invoked,
                  faults, resumes, plan_cap, aux >>

\* generate_plan: the response does not parse, or _validate_plan rejects it
GeneratePlanInvalid ==
  /\ pc = "plan"
  /\ \/ PlanningFails("parse_error")
     \/ \E p \in PlansUpTo(plan_cap) :
          /\ validate_plan(p) # "ok"
          /\ PlanningFails(validate_plan(p))
  /\ UNCHANGED << disk, archive, ret, run, method, max_steps, plan, local, invoked,
                  faults, resumes, plan_cap, aux >>

\* variant of ExceedsPlanCap without the plan-size guard
ExceedsPlanCapNever(planned_steps) == FALSE

\* len(planned_steps) > self.MAX_PLANNED_STEPS
ExceedsPlanCap(planned_steps) == Len(planned_steps) > caps.planned

\* generate_plan persists a validated plan; then load_task and the plan-size guard
GeneratePlanOk ==
  /\ pc = "plan"
  /\ \E p \in PlansUpTo(plan_cap) :
       /\ validate_plan(p) = "ok"
       /\ disk' = UpdateTask(disk, [domain |-> "general", constraints |-> 0,
                                     next_steps |-> p])
       /\ plan' = p
       /\ IF ExceedsPlanCap(p)
          THEN /\ PlanningFails("too_many_steps_MAX_PLANNED_STEPS")
               /\ UNCHANGED << planned, idx >>
          ELSE /\ planned' = p
               /\ idx' = 1
               /\ pc' = "resolve"
               /\ UNCHANGED << state, last_error >>
  /\ UNCHANGED << pending, archive, ret, run, method, max_steps, nodes, node_ids, node_results,
                  wf, invoking, invoked, faults, resumes, plan_cap, aux >>

\* what the generator answers when asked to select a tool
Selections == RegisteredTools \cup {UnknownTool, "none", "exception"}

\* variant of ResolveStep that does not fail fast: a step whose selection is
\* "none" or not registered is left without a tool and the loop goes on
ResolveStepLenient ==
  /\ pc = "resolve"
  /\ idx <= Len(planned)
  /\ \E sel \in Selections \ {"exception"} :
       /\ planned' = IF sel \in RegisteredTools
                     THEN [planned EXCEPT ![idx].tool = sel] ELSE planned
       /\ idx' = idx + 1
  /\ UNCHANGED << disk, archive, state, pc, ret, run, method, max_steps, plan, pending,
                  nodes, node_ids, node_results, wf, invoking, invoked, last_error,
                  faults, resumes, plan_cap, aux >>

\* one round of the pre-resolution loop: _select_tool_for_step for planned_steps[idx]
ResolveStep ==
  /\ pc = "resolve"
  /\ idx <= Len(planned)
  /\ \E sel \in Selections :
       IF sel = "exception"
       THEN /\ Escape("generator_error")
            /\ UNCHANGED << planned, idx >>
       ELSE IF sel = "none"
       THEN /\ PlanningFails("not_executable_no_matching_tool")
            /\ UNCHANGED << planned, idx, ret >>
       ELSE IF sel \notin RegisteredTools
       THEN /\ PlanningFails("not_executable_tool_not_registered")
            /\ UNCHANGED << planned, idx, ret >>
       ELSE /\ planned' = [planned EXCEPT ![idx].tool = sel]
            /\ idx' = idx + 1
            /\ UNCHANGED << state, last_error, pc, ret >>
  /\ UNCHANGED << pending, disk, archive, run, method, max_steps, plan, nodes, node_ids,
                  node_results, wf, invoking, invoked, faults, resumes, plan_cap, aux >>

\* after the loop: update_task(next_steps=planned_steps), then state EXECUTING
ResolveSave ==
  /\ pc = "resolve"
  /\ idx > Len(planned)
  /\ disk' = UpdateTask(disk, [next_steps |-> planned])
  /\ pending' = planned
  /\ state' = "EXECUTING"
  /\ pc' = "convert"
  /\ idx' = 1
  /\ UNCHANGED << archive, ret, run, method, max_steps, plan, planned, nodes, node_ids,
                  node_results, wf, invoking, invoked, last_error, faults, resumes, plan_cap, aux >>

\* except InvalidPlanError: update_task(status FAILED, error, planning_invalid)
PlanFailUpdate ==
  /\ pc = "planfail_update"
  /\ disk' = UpdateTask(disk, [status |-> "FAILED", error |-> last_error,
                               failure_cause |-> "planning_invalid"])
  /\ pc' = "planfail_archive"
  /\ UNCHANGED << archive, state, ret, run, method, max_steps, plan, local, invoked,
                  last_error, faults, resumes, plan_cap, aux >>

\* ... archive_task(reason="failed_plan"); return task_id
PlanFailArchive ==
  /\ pc = "planfail_archive"
  /\ archive' = ArchiveTask(archive, disk, "failed_plan")
  /\ disk' = NoFile
  /\ Return
  /\ UNCHANGED << state, run, method, max_steps, plan, local, invoked, last_error,
                  faults, resumes, plan_cap, aux >>

\* except Exception: update_task(status FAILED, error, controller_error);
\* update_task raises FileNotFoundError when the file is gone
ErrUpdate ==
  /\ pc = "err_update"
  /\ IF disk.exists
     THEN /\ disk' = UpdateTask(disk, [status |-> "FAILED", error |-> last_error,
                                       failure_cause |-> "controller_error"])
          /\ pc' = "err_archive"
          /\ ret' = ret
     ELSE /\ pc' = "idle"
          /\ ret' = "raised"
          /\ disk' = disk
  /\ UNCHANGED << archive, state, run, method, max_steps, plan, local, invoked,
                  last_error, faults, resumes, plan_cap, aux >>

\* ... archive_task(reason="error"); return task_id
ErrArchive ==
  /\ pc = "err_archive"
  /\ archive' = ArchiveTask(archive, disk, "error")
  /\ disk' = NoFile
  /\ Return
  /\ UNCHANGED << state, run, method, max_steps, plan, local, invoked, last_error,
                  faults, resumes, plan_cap, aux >>

(************** _convert_plan_to_workflow_nodes ***************************)
\* one round of the second loop, for the pending step at position idx: a step
\* without description is skipped, a step without a resolved tool gets one
\* from the generator ("none": skipped), every other step becomes a node
ConvertStep ==
  /\ pc = "convert"
  /\ idx <= Len(pending)
  /\ LET step == pending[idx] IN
     \E sel \in (IF step.tool = "" /\ step.description # 0 THEN Selections ELSE {step.tool}) :
       IF sel = "exception"
       THEN /\ Escape("generator_error")
            /\ UNCHANGED << idx, nodes, node_ids >>
       ELSE /\ IF step.description = 0 \/ sel = "none"
               THEN UNCHANGED << nodes, node_ids >>
               ELSE /\ nodes' = AddNode(nodes, MakeNode(pending, idx, sel))
                    /\ node_ids' = Append(node_ids, NodeId(idx - 1, sel))
            /\ idx' = idx + 1
            /\ UNCHANGED << state, last_error, pc, ret >>
  /\ UNCHANGED << pending, disk, archive, run, method, max_steps, plan, planned, node_results,
                  wf, invoking, invoked, faults, resumes, plan_cap, aux >>

\* after the loop: no node: "return 0"; else execute_workflow starts: no start
\* node: the workflow fails; one: _execute_linear_workflow; several:
\* _execute_linear_workflow_with_dependencies, whose first round has all of them ready
ConvertDone ==
  /\ pc = "convert"
  /\ idx > Len(pending)
  /\ LET start == StartNodes(nodes) IN
     IF node_ids = << >>
     THEN /\ pc' = "after_exec"
          /\ UNCHANGED << wf, last_error, idx >>
     ELSE IF start = << >>
     THEN /\ pc' = "execfail_update"
          /\ last_error' = "workflow_failed_no_starting_nodes"
          /\ UNCHANGED << wf, idx >>
     ELSE /\ pc' = "wf"
          /\ wf' = IF Len(start) = 1
                   THEN [IdleEngine EXCEPT !.mode = "linear", !.current = start[1]]
                   ELSE [IdleEngine EXCEPT !.mode = "deps", !.ready = SeqToSet(start)]
          /\ UNCHANGED << last_error, idx >>
  /\ UNCHANGED << pending, disk, archive, state, ret, run, method, max_steps, plan, planned,
                  nodes, node_ids, node_results, invoking, invoked, faults, resumes, plan_cap, aux >>

(************************** execute_workflow ******************************)
\* a node result as _execute_with_workflow_engine reads it
Result(nid, status, tool_name, error, payload) ==
  [id |-> nid, status |-> status, tool_name |-> tool_name, error |-> error,
   payload |-> payload]

\* _execute_single_node has stored the result of nid: the loop of
\* _execute_linear_workflow or of _execute_linear_workflow_with_dependencies
\* goes on to the next node, or the workflow completes
NodeDone(nid, res) ==
  LET executed1 == wf.executed \cup {nid}
      next_nodes == NextNodes(nodes, nid)
      current1 == IF next_nodes # << >> THEN next_nodes[1] ELSE NoNode
      pending1 == wf.pending \cup (SeqToSet(next_nodes) \ executed1)
      ready1 == wf.ready \ {nid}
      round == {n \in pending1 : NodeOf(nodes, n).dependencies \subseteq executed1}
      completed == /\ pc' = "record"
                   /\ idx' = 0
                   /\ wf' = IdleEngine
  IN /\ node_results' = {r \in node_results : r.id # nid} \cup {res}
     /\ invoking' = NoInvocation
     /\ IF wf.mode = "linear"
        THEN IF current1 # NoNode /\ current1 \notin executed1
             THEN /\ wf' = [wf EXCEPT !.executed = executed1, !.current = current1]
                  /\ UNCHANGED << pc, idx >>
             ELSE completed
        ELSE IF ready1 # {}
             THEN /\ wf' = [wf EXCEPT !.executed = executed1, !.pending = pending1,
                                      !.ready = ready1]
                  /\ UNCHANGED << pc, idx >>
             ELSE IF pending1 = {} THEN completed
             ELSE IF round = {}
             THEN \* "while pending" spins: nothing is ready and nothing executes
                  /\ pc' = "wf_spin"
                  /\ wf' = [wf EXCEPT !.executed = executed1, !.pending = pending1,
                                      !.ready = {}]
                  /\ idx' = idx
             ELSE /\ wf' = [wf EXCEPT !.executed = executed1,
                                      !.pending = pending1 \ round, !.ready = round]
                  /\ UNCHANGED << pc, idx >>

\* one more node execution ends FAILED
Fault ==
  /\ faults < MaxFaults
  /\ faults' = faults + 1

\* SimpleToolNode.execute -> ExecutorAgent.execute_step for the next node: the
\* generator selects a tool again; a generator error, "none", an unregistered
\* tool or invalid parameters give a FAILED result without running a tool;
\* otherwise tool.execute starts
NodeBegin ==
  /\ pc = "wf"
  /\ invoking = NoInvocation
  /\ \E nid \in (IF wf.mode = "linear" THEN {wf.current} ELSE wf.ready) :
     \E sel \in Selections : \E valid \in BOOLEAN :
       LET node == NodeOf(nodes, nid) IN
       IF sel = "exception"
       THEN /\ valid
            /\ Fault
            /\ NodeDone(nid, Result(nid, "FAILED", node.tool_name, "generator_error", 0))
            /\ invoked' = invoked
       ELSE IF sel = "none"
       THEN /\ valid
            /\ Fault
            /\ NodeDone(nid, Result(nid, "FAILED", "none", "no_suitable_tool", 0))
            /\ invoked' = invoked
       ELSE IF sel \notin RegisteredTools
       THEN /\ valid
            /\ Fault
            /\ NodeDone(nid, Result(nid, "FAILED", sel, "tool_not_found", 0))
            /\ invoked' = invoked
       ELSE IF ~valid
       THEN /\ Fault
            /\ NodeDone(nid, Result(nid, "FAILED", sel, "invalid_parameters", 0))
            /\ invoked' = invoked
       ELSE /\ invoking' = [node |-> nid, tool |-> sel]
            /\ invoked' = invoked \cup {nid}
            /\ UNCHANGED << node_results, wf, pc, idx, faults >>
  /\ UNCHANGED << pending, disk, archive, state, ret, run, method, max_steps, plan, planned,
                  nodes, node_ids, last_error, resumes, plan_cap, aux >>

\* tool.execute ends: with a result (SUCCESS) or with an exception, which
\* call_tool wraps as ToolExecutionError and execute_step returns as FAILED
NodeEnd ==
  /\ pc = "wf"
  /\ invoking # NoInvocation
  /\ \E ok \in BOOLEAN :
       LET nid == invoking.node
           node == NodeOf(nodes, nid)
       IN IF ok
          THEN /\ NodeDone(nid, Result(nid, "SUCCESS", invoking.tool, "none",
                                       node.description))
               /\ faults' = faults
          ELSE /\ Fault
               /\ NodeDone(nid, Result(nid, "FAILED", invoking.tool,
                                       "tool_execution_failed", 0))
  /\ UNCHANGED << pending, disk, archive, state, ret, run, method, max_steps, plan, planned,
                  nodes, node_ids, invoked, last_error, resumes, plan_cap, aux >>

(************ _execute_with_workflow_engine: recording the results ********)
\* result.get("results", {}).get(node_id, {}) with the defaults the loop
\* applies to a missing result: tool "unknown", status "SUCCESS", no payload
ResultOf(results, nid) ==
  IF \E r \in results : r.id = nid
  THEN CHOOSE r \in results : r.id = nid
  ELSE Result(nid, "SUCCESS", "unknown", "none", 0)

\* variant of FailureCause that looks at the message's start only
FailureCauseByPrefix(error_msg) ==
  IF error_msg \in {"execution_step_failed_no_tool", "workflow_failed_no_starting_nodes"}
  THEN "execution_step_failed"
  ELSE "controller_error"

\* the failure_cause the "except RuntimeError" block derives from the message
\* (startswith "execution_step_failed" or contains "MAX_EXECUTED_STEPS"), and
\* the one the "workflow failed" branch sets
FailureCause(error_msg) ==
  IF error_msg \in {"execution_step_failed_no_tool", "MAX_EXECUTED_STEPS_exceeded",
                    "workflow_failed_no_starting_nodes"}
  THEN "execution_step_failed"
  ELSE "controller_error"

ArchiveReason(cause) ==
  IF cause = "execution_step_failed" THEN "failed_execute" ELSE "error"

\* one round of "for index, node_id in enumerate(node_ids)" up to its first
\* store operation: the loop ends or breaks at max_steps, raises at the
\* execution cap or on a FAILED result, or persists current_step
RecordStep ==
  /\ pc = "record"
  /\ LET res == ResultOf(node_results, node_ids[idx + 1])
         next_steps == disk.next_steps
         step_description == IF idx < Len(next_steps)
                             THEN next_steps[idx + 1].description ELSE 0
     IN IF idx >= Len(node_ids) \/ (max_steps.limited /\ idx >= max_steps.n)
        THEN /\ pc' = "after_exec"
             /\ UNCHANGED << disk, last_error >>
        ELSE IF idx >= caps.executed
        THEN /\ pc' = "execfail_update"
             /\ last_error' = "MAX_EXECUTED_STEPS_exceeded"
             /\ disk' = disk
        ELSE IF res.status = "FAILED"
        THEN /\ pc' = "execfail_update"
             /\ last_error' = IF res.tool_name = "none"
                              THEN "execution_step_failed_no_tool" ELSE res.error
             /\ disk' = disk
        ELSE /\ disk' = UpdateTask(disk,
                          [current_step |-> CurrentStep(idx, step_description)])
             /\ pc' = "rec_complete"
             /\ last_error' = last_error
  /\ UNCHANGED << pending, archive, state, ret, run, method, max_steps, plan, planned, idx,
                  nodes, node_ids, node_results, wf, invoking, invoked, faults, resumes, plan_cap, aux >>

\* ... complete_step(step_index=index, outcome="SUCCESS", artifact, tool_name)
RecordComplete ==
  /\ pc = "rec_complete"
  /\ LET res == ResultOf(node_results, node_ids[idx + 1]) IN
     disk' = CompleteStep(disk, idx, "SUCCESS", res.payload, res.tool_name)
  /\ pc' = "rec_pop"
  /\ UNCHANGED << pending, archive, state, ret, run, method, max_steps, plan, planned, idx,
                  nodes, node_ids, node_results, wf, invoking, invoked, last_error,
                  faults, resumes, plan_cap, aux >>

\* ... load_task; update_task(next_steps=next_steps[1:]) when there are any
RecordPop ==
  /\ pc = "rec_pop"
  /\ disk' = IF disk.next_steps # << >>
             THEN UpdateTask(disk, [next_steps |-> Tail(disk.next_steps)])
             ELSE disk
  /\ idx' = idx + 1
  /\ pc' = "record"
  /\ UNCHANGED << pending, archive, state, ret, run, method, max_steps, plan, planned,
                  nodes, node_ids, node_results, wf, invoking, invoked, last_error,
                  faults, resumes, plan_cap, aux >>

\* the failure blocks: update_task(status FAILED, error, failure_cause)
ExecFailUpdate ==
  /\ pc = "execfail_update"
  /\ disk' = UpdateTask(disk, [status |-> "FAILED", error |-> last_error,
                               failure_cause |-> FailureCause(last_error)])
  /\ pc' = "execfail_archive"
  /\ UNCHANGED << archive, state, ret, run, method, max_steps, plan, local, invoked,
                  last_error, faults, resumes, plan_cap, aux >>

\* ... archive_task(reason); state FAILED; return 0
ExecFailArchive ==
  /\ pc = "execfail_archive"
  /\ archive' = ArchiveTask(archive, disk, ArchiveReason(FailureCause(last_error)))
  /\ disk' = NoFile
  /\ state' = "FAILED"
  /\ pc' = "after_exec"
  /\ UNCHANGED << ret, run, method, max_steps, plan, local, invoked, last_error,
                  faults, resumes, plan_cap, aux >>

(*********************** ARCHIVING and return *****************************)
\* variant of GoesOnToArchive that does not look at the controller state
GoesOnToArchiveAlways ==
  method = "resume_task" => disk.next_steps = << >>

\* variant of GoesOnToArchive in which resume_task archives whatever is left
\* in next_steps
GoesOnToArchiveWithPending ==
  state # "FAILED"

\* whether the caller of _execute_remaining_steps goes on to archive: run_task
\* when the state is not FAILED; resume_task when moreover next_steps is empty
GoesOnToArchive ==
  /\ state # "FAILED"
  /\ method = "resume_task" => disk.next_steps = << >>

\* state ARCHIVING; update_task(status COMPLETED)
BeginArchiving ==
  /\ pc = "after_exec"
  /\ GoesOnToArchive
  /\ state' = "ARCHIVING"
  /\ disk' = UpdateTask(disk, [status |-> "COMPLETED"])
  /\ pc' = "arch_move"
  /\ UNCHANGED << archive, ret, run, method, max_steps, plan, local, invoked,
                  last_error, faults, resumes, plan_cap, aux >>

\* ... archive_task(); state COMPLETED; return task_id
FinishArchiving ==
  /\ pc = "arch_move"
  /\ archive' = ArchiveTask(archive, disk, "completed")
  /\ disk' = NoFile
  /\ state' = "COMPLETED"
  /\ Return
  /\ UNCHANGED << run, method, max_steps, plan, local, invoked, last_error,
                  faults, resumes, plan_cap, aux >>

\* return task_id in state FAILED, or from resume_task with steps still pending
ReturnAfterExec ==
  /\ pc = "after_exec"
  /\ ~GoesOnToArchive
  /\ Return
  /\ UNCHANGED << disk, archive, state, run, method, max_steps, plan, local, invoked,
                  last_error, faults, resumes, plan_cap, aux >>

(***************************** resume_task ********************************)
\* the max_steps arguments followed
MaxStepsChoices == {NoLimit, Limit(1)}

\* next_steps after the re-queue of the in-flight step: its description goes
\* in front unless the head of next_steps already carries that description
Requeue(next_steps, step_description) ==
  IF next_steps = << >> \/ next_steps[1].description # step_description
  THEN << [id |-> 0, description |-> step_description, dependencies |-> {}, tool |-> ""] >>
       \o next_steps
  ELSE next_steps

\* variant of ResumeRaises without the check of the persisted status
ResumeRaisesAnyStatus(d) ==
  \/ ~d.exists
  \/ d.current_step.set /\ d.current_step.description = 0

\* whether resume_task raises before it executes anything: no task file
\* (load_task), a terminal status, or a current_step without description
ResumeRaises(d) ==
  \/ ~d.exists
  \/ d.status \in {"COMPLETED", "FAILED"}
  \/ d.current_step.set /\ d.current_step.description = 0

\* resume_task on a fresh controller instance, up to _execute_remaining_steps
ResumeCall ==
  /\ pc = "idle"
  /\ run >= 1
  /\ resumes' = resumes + 1
  /\ run' = run + 1
  /\ method' = "resume_task"
  /\ last_error' = "none"
  /\ invoked' = {}
  /\ planned' = << >>
  /\ nodes' = << >>
  /\ node_ids' = << >>
  /\ node_results' = {}
  /\ wf' = IdleEngine
  /\ invoking' = NoInvocation
  /\ \E ms \in MaxStepsChoices : max_steps' = ms
  /\ IF ResumeRaises(disk)
     THEN /\ state' = "INITIALIZING"
          /\ pc' = "idle"
          /\ ret' = "raised"
          /\ idx' = 0
          /\ disk' = disk
          /\ pending' = << >>
     ELSE /\ disk' = IF disk.current_step.set
                     THEN UpdateTask(disk,
                            [current_step |-> NoStep,
                             next_steps |-> Requeue(disk.next_steps,
                                                    disk.current_step.description),
                             status |-> "IN_PROGRESS"])
                     ELSE disk
          /\ pending' = disk'.next_steps
          /\ state' = "EXECUTING"
          /\ pc' = "convert"
          /\ ret' = "none"
          /\ idx' = 1
  /\ UNCHANGED << archive, plan, faults, plan_cap, aux >>

\* a resume_task call, at most MaxResumes of them in one behaviour
ResumeTask ==
  /\ resumes < MaxResumes
  /\ ResumeCall

(******************************* crash ************************************)
\* the process dies while a call is in progress: the files stay, the
\* controller instance and its engine are gone
Crash ==
  /\ pc # "idle"
  /\ resumes < MaxResumes
  /\ pc' = "idle"
  /\ ret' = "crashed"
  /\ planned' = << >>
  /\ pending' = << >>
  /\ idx' = 0
  /\ nodes' = << >>
  /\ node_ids' = << >>
  /\ node_results' = {}
  /\ wf' = IdleEngine
  /\ invoking' = NoInvocation
  /\ UNCHANGED << disk, archive, state, run, method, max_steps, plan, invoked,
                  last_error, faults, resumes, plan_cap, aux >>

\* one run_task call on a fresh controller, no crash
Next ==
  \/ RunTask
  \/ GeneratePlanRaises
  \/ GeneratePlanInvalid
  \/ GeneratePlanOk
  \/ ResolveStep
  \/ ResolveSave
  \/ PlanFailUpdate
  \/ PlanFailArchive
  \/ ErrUpdate
  \/ ErrArchive
  \/ ConvertStep
  \/ ConvertDone
  \/ NodeBegin
  \/ NodeEnd
  \/ RecordStep
  \/ RecordComplete
  \/ RecordPop
  \/ ExecFailUpdate
  \/ ExecFailArchive
  \/ BeginArchiving
  \/ FinishArchiving
  \/ ReturnAfterExec

Spec == Init /\ [][Next]_vars

\* run_task, crashes, and resume_task calls by fresh controller instances
InitResume ==
  /\ disk = NoFile
  /\ archive = {}
  /\ state = "INITIALIZING"
  /\ pc = "idle"
  /\ ret = "none"
  /\ run = 0
  /\ method = "none"
  /\ max_steps = NoLimit
  /\ plan = << >>
  /\ planned = << >>
  /\ pending = << >>
  /\ idx = 0
  /\ nodes = << >>
  /\ node_ids = << >>
  /\ node_results = {}
  /\ wf = IdleEngine
  /\ invoking = NoInvocation
  /\ invoked = {}
  /\ last_error = "none"
  /\ faults = 0
  /\ resumes = 0
  /\ plan_cap = MaxResumePlanLen
  /\ dir = << >>
  /\ scan = NoScan
  /\ tmp = NoFile
  /\ call = NoCall
  /\ planning = NoPlanning
  /\ exe = NoExe
  /\ caps = DefaultCaps
  /\ batch = NoBatch
  /\ llm = NoLlm

NextResume ==
  \/ Next
  \/ ResumeTask
  \/ Crash

SpecResume == InitResume /\ [][NextResume]_vars

\* the same with progress: a call in progress goes on unless the process is
\* killed, and a task left in the directory is resumed while resume_task
\* calls are left
SpecResumeFair == SpecResume /\ WF_vars(NextResume)

\* the caps of the controller instances followed: the class's, and instances
\* whose plan cap or execution cap is 1 or 2
CapChoices ==
  {DefaultCaps}
  \cup {[DefaultCaps EXCEPT !.planned = k] : k \in 1..2}
  \cup {[DefaultCaps EXCEPT !.executed = k] : k \in 1..2}

\* one run_task call on a fresh controller with any of these caps
InitCaps ==
  /\ disk = NoFile
  /\ archive = {}
  /\ state = "INITIALIZING"
  /\ pc = "idle"
  /\ ret = "none"
  /\ run = 0
  /\ method = "none"
  /\ max_steps = NoLimit
  /\ plan = << >>
  /\ planned = << >>
  /\ pending = << >>
  /\ idx = 0
  /\ nodes = << >>
  /\ node_ids = << >>
  /\ node_results = {}
  /\ wf = IdleEngine
  /\ invoking = NoInvocation
  /\ invoked = {}
  /\ last_error = "none"
  /\ faults = 0
  /\ resumes = 0
  /\ plan_cap = MaxPlanLen
  /\ dir = << >>
  /\ scan = NoScan
  /\ tmp = NoFile
  /\ call = NoCall
  /\ planning = NoPlanning
  /\ exe = NoExe
  /\ caps \in CapChoices
  /\ batch = NoBatch
  /\ llm = NoLlm

SpecCaps == InitCaps /\ [][Next]_vars


(*********************** supervisor_resume_stalled_tasks *******************)
\* the controller's variables, which a supervisor scan of the abstract
\* directory leaves alone
ctl == << disk, archive, state, pc, ret, run, method, max_steps, plan, planned,
          pending, idx, nodes, node_ids, node_results, wf, invoking, invoked,
          last_error, faults, resumes, plan_cap >>

TaskIds == 1 .. MaxTasks

\* the directory entries a scan can meet: tasks left by crashed or limited
\* calls, or written through the store
DirEntries ==
  { DirEntry("NONE", "none", FALSE, FALSE, TRUE),
    DirEntry("ACTIVE", "IN_PROGRESS", FALSE, TRUE, TRUE),
    DirEntry("ACTIVE", "IN_PROGRESS", FALSE, TRUE, FALSE),
    DirEntry("ACTIVE", "IN_PROGRESS", FALSE, FALSE, TRUE),
    DirEntry("ACTIVE", "IN_PROGRESS", TRUE, TRUE, TRUE),
    DirEntry("ACTIVE", "CREATED", FALSE, TRUE, TRUE),
    DirEntry("ARCHIVED", "IN_PROGRESS", FALSE, TRUE, TRUE),
    DirEntry("ARCHIVED", "COMPLETED", FALSE, TRUE, TRUE) }

\* sorted(...) of a set of task ids
RECURSIVE SortedSeq(_)
SortedSeq(S) ==
  IF S = {} THEN << >>
  ELSE LET m == CHOOSE x \in S : \A y \in S : x <= y
       IN  << m >> \o SortedSeq(S \ {m})

\* the stems of the task_*.json files of the base directory, sorted
list_active_task_ids(d) == SortedSeq({t \in DOMAIN d : d[t].lifecycle = "ACTIVE"})

\* the files below archive/, a read-only enumeration
list_archived_task_paths(d) == SortedSeq({t \in DOMAIN d : d[t].lifecycle = "ARCHIVED"})

\* one summary of list_task_summaries
Summary(d, t) ==
  [task_id |-> t, lifecycle |-> d[t].lifecycle, status |-> d[t].status,
   has_current_step |-> d[t].has_current_step]

\* list_task_summaries: the summaries of the active tasks, then those of the
\* archived ones, sorted by (lifecycle rank, task_id)
list_task_summaries(d) ==
  LET active == list_active_task_ids(d)
      archived == list_archived_task_paths(d)
  IN  [i \in 1 .. Len(active) |-> Summary(d, active[i])]
      \o [i \in 1 .. Len(archived) |-> Summary(d, archived[i])]

\* how "await self.resume_task(task_id)" can end for a task the scan selected:
\* the task archived as COMPLETED or FAILED; the task left active (no step was
\* executable); or, when a tool has to be selected, the generator's exception,
\* which resume_task does not catch
ResumeOutcomes(e) ==
  {"COMPLETED", "FAILED"} \cup (IF e.resolved THEN {} ELSE {"active", "raised"})

\* the call starts: resumed = [], summaries = self.list_task_summaries()
SupervisorStart ==
  /\ scan.stage = "idle"
  /\ \E k \in 0 .. MaxTasks :
       scan' = [stage |-> "scanning", max_tasks |-> k,
                summaries |-> list_task_summaries(dir), pos |-> 1,
                resumed |-> << >>, dir0 |-> dir]
  /\ UNCHANGED << dir, tmp, call, planning, extra, ctl >>

\* one round of the loop over the summaries
SupervisorExamine ==
  /\ scan.stage = "scanning"
  /\ scan.pos <= Len(scan.summaries)
  /\ Len(scan.resumed) < scan.max_tasks
  /\ LET summary == scan.summaries[scan.pos]
         task_id == summary.task_id
     IN  IF \/ summary.lifecycle # "ACTIVE"
            \/ summary.status # "IN_PROGRESS"
            \/ summary.has_current_step
            \/ ~dir[task_id].old
         THEN /\ scan' = [scan EXCEPT !.pos = @ + 1]
              /\ dir' = dir
         ELSE \E outcome \in ResumeOutcomes(dir[task_id]) :
                IF outcome = "raised"
                THEN /\ scan' = [scan EXCEPT !.stage = "raised"]
                     /\ dir' = dir
                ELSE /\ scan' = [scan EXCEPT !.pos = @ + 1,
                                             !.resumed = Append(@, task_id)]
                     /\ dir' = IF outcome = "active" THEN dir
                               ELSE [dir EXCEPT ![task_id] =
                                       DirEntry("ARCHIVED", outcome, FALSE, FALSE, TRUE)]
  /\ UNCHANGED << tmp, call, planning, extra, ctl >>

\* the loop ends (break, or no summary left): return resumed
SupervisorReturn ==
  /\ scan.stage = "scanning"
  /\ scan.pos > Len(scan.summaries) \/ Len(scan.resumed) >= scan.max_tasks
  /\ scan' = [scan EXCEPT !.stage = "returned"]
  /\ UNCHANGED << dir, tmp, call, planning, extra, ctl >>

\* one supervisor scan of a directory of up to MaxTasks tasks
InitSupervisor ==
  /\ disk = NoFile
  /\ archive = {}
  /\ state = "INITIALIZING"
  /\ pc = "idle"
  /\ ret = "none"
  /\ run = 0
  /\ method = "none"
  /\ max_steps = NoLimit
  /\ plan = << >>
  /\ planned = << >>
  /\ pending = << >>
  /\ idx = 0
  /\ nodes = << >>
  /\ node_ids = << >>
  /\ node_results = {}
  /\ wf = IdleEngine
  /\ invoking = NoInvocation
  /\ invoked = {}
  /\ last_error = "none"
  /\ faults = 0
  /\ resumes = 0
  /\ plan_cap = 0
  /\ dir \in [TaskIds -> DirEntries]
  /\ scan = NoScan
  /\ tmp = NoFile
  /\ call = NoCall
  /\ planning = NoPlanning
  /\ exe = NoExe
  /\ caps = DefaultCaps
  /\ batch = NoBatch
  /\ llm = NoLlm

NextSupervisor ==
  \/ SupervisorStart
  \/ SupervisorExamine
  \/ SupervisorReturn

SpecSupervisor == InitSupervisor /\ [][NextSupervisor]_vars


(************************** WorkingStateManager ****************************)
\* direct calls of the store on one task, by any store instance on the
\* directory (an instance keeps nothing but the path), as the unit tests make
\* them.  JSON serialisation is the identity on the values used here
\* (strings, numbers, lists, dicts with string keys, null).

\* the variables a direct store call leaves alone
storeframe == << state, run, method, max_steps, plan, local, invoked, last_error,
                 faults, resumes, plan_cap, dir, scan, planning, extra >>

\* a next_steps entry as a caller of create_task writes it
StoredStep(i, tool_name) == [PlanStep(i, {}) EXCEPT !.tool = tool_name]

\* the next_steps given to create_task
CreateSpecs ==
  { << >>,
    << StoredStep(1, "") >>,
    << StoredStep(1, "text_output") >>,
    << StoredStep(1, "text_output"), StoredStep(2, "text_output") >> }

\* the patches given to update_task (a key the state does not have yet,
\* like failure_cause, is a field with the value "absent" before)
StorePatches ==
  { [k \in {} |-> 0],
    [status |-> "IN_PROGRESS"],
    [current_step |-> CurrentStep(0, 1)],
    [current_step |-> CurrentStep(1, 2), status |-> "IN_PROGRESS"],
    [next_steps |-> << >>, status |-> "COMPLETED"],
    [status |-> "FAILED", failure_cause |-> "controller_error"] }

\* the arguments given to complete_step
CompleteArgs ==
  { [step_index |-> i, outcome |-> "SUCCESS", artifact |-> 1, tool_name |-> "text_output"]
      : i \in 0 .. 1 }

\* the reasons given to archive_task
ArchiveReasons == {"completed", "finished"}

\* load_task raises: no file (FileNotFoundError) or no complete JSON in it
LoadRaises(d) == ~d.exists \/ d = TornFile

\* variant of TempPath in which the temporary file is the task file itself
TempPathIsTaskFile == "file"

\* task_file.with_suffix(".tmp"): the file update_task writes before the replace
TempPath == "tmp"

\* variant of CompleteStepRaises without the check of current_step
CompleteStepRaisesNever(d) == FALSE

\* complete_step raises ValueError: no current_step
CompleteStepRaises(d) == ~d.current_step.set

\* a direct call that raised before it wrote anything
StoreRaised(op, args, error) ==
  /\ call' = [op |-> op, n |-> call.n + 1, args |-> args, before |-> disk,
              new |-> disk, result |-> error, returned |-> NoFile]
  /\ pc' = "idle"
  /\ ret' = "raised"
  /\ UNCHANGED << disk, tmp, archive >>

\* update_task(task_id, state) up to the write: load_task, state.update, _validate_state
StoreWrites(op, args, new) ==
  /\ call' = [op |-> op, n |-> call.n + 1, args |-> args, before |-> disk,
              new |-> new, result |-> "none", returned |-> NoFile]
  /\ pc' = "upd_open"
  /\ ret' = "none"
  /\ UNCHANGED << disk, tmp, archive >>

\* load_task(task_id)
StoreLoad ==
  /\ pc = "idle"
  /\ call.n < MaxStoreOps
  /\ call' = [op |-> "load_task", n |-> call.n + 1, args |-> << >>, before |-> disk,
              new |-> disk,
              result |-> IF LoadRaises(disk) THEN "load_error" ELSE "state",
              returned |-> IF LoadRaises(disk) THEN NoFile ELSE disk]
  /\ ret' = IF LoadRaises(disk) THEN "raised" ELSE "returned"
  /\ UNCHANGED << disk, tmp, archive, pc, storeframe >>

\* update_task(task_id, updates), up to the write
StoreUpdate ==
  /\ pc = "idle"
  /\ call.n < MaxStoreOps
  /\ \E updates \in StorePatches :
       IF LoadRaises(disk)
       THEN StoreRaised("update_task", updates, "load_error")
       ELSE StoreWrites("update_task", updates, UpdateTask(disk, updates))
  /\ UNCHANGED storeframe

\* complete_step(task_id, step_index, outcome, artifact, tool_name), up to
\* the write of its update_task(task_id, state)
StoreCompleteStep ==
  /\ pc = "idle"
  /\ call.n < MaxStoreOps
  /\ \E a \in CompleteArgs :
       IF LoadRaises(disk)
       THEN StoreRaised("complete_step", a, "load_error")
       ELSE IF CompleteStepRaises(disk)
       THEN StoreRaised("complete_step", a, "ValueError")
       ELSE StoreWrites("complete_step", a,
              UpdateTask(disk, CompleteStep(disk, a.step_index, a.outcome,
                                            a.artifact, a.tool_name)))
  /\ UNCHANGED storeframe

\* open(temp_file, "w"): the file is created or truncated
StoreOpenTemp ==
  /\ pc = "upd_open"
  /\ pc' = "upd_dump"
  /\ IF TempPath = "tmp"
     THEN tmp' = TornFile /\ disk' = disk
     ELSE disk' = TornFile /\ tmp' = tmp
  /\ UNCHANGED << archive, ret, call, storeframe >>

\* json.dump(state, f) and close; or the write raises: unlink, raise
StoreDumpTemp ==
  /\ pc = "upd_dump"
  /\ \E written \in BOOLEAN :
       IF written
       THEN /\ pc' = "upd_replace"
            /\ IF TempPath = "tmp"
               THEN tmp' = call.new /\ disk' = disk
               ELSE disk' = call.new /\ tmp' = tmp
            /\ UNCHANGED << ret, call >>
       ELSE /\ pc' = "idle"
            /\ ret' = "raised"
            /\ call' = [call EXCEPT !.result = "write_error"]
            /\ IF TempPath = "tmp"
               THEN tmp' = NoFile /\ disk' = disk
               ELSE disk' = NoFile /\ tmp' = tmp
  /\ UNCHANGED << archive, storeframe >>

\* temp_file.replace(task_file); return state
StoreReplace ==
  /\ pc = "upd_replace"
  /\ pc' = "idle"
  /\ ret' = "returned"
  /\ IF TempPath = "tmp"
     THEN disk' = tmp /\ tmp' = NoFile
     ELSE UNCHANGED << disk, tmp >>
  /\ call' = [call EXCEPT !.result = "state", !.returned = call.new]
  /\ UNCHANGED << archive, storeframe >>

\* archive_task(task_id, reason)
StoreArchive ==
  /\ pc = "idle"
  /\ call.n < MaxStoreOps
  /\ \E reason \in ArchiveReasons :
       IF ~disk.exists
       THEN StoreRaised("archive_task", [reason |-> reason], "FileNotFoundError")
       ELSE /\ archive' = ArchiveTask(archive, disk, reason)
            /\ disk' = NoFile
            /\ call' = [op |-> "archive_task", n |-> call.n + 1,
                        args |-> [reason |-> reason], before |-> disk, new |-> NoFile,
                        result |-> "path", returned |-> NoFile]
            /\ ret' = "returned"
            /\ UNCHANGED << pc, tmp >>
  /\ UNCHANGED storeframe

\* the process stops while update_task is writing
StoreCrash ==
  /\ pc \in {"upd_open", "upd_dump", "upd_replace"}
  /\ pc' = "idle"
  /\ ret' = "crashed"
  /\ UNCHANGED << disk, tmp, archive, call, storeframe >>

\* a task created by create_task, then direct calls of the store
InitStore ==
  /\ \E next_steps \in CreateSpecs : disk = [NewTask EXCEPT !.next_steps = next_steps]
  /\ archive = {}
  /\ state = "INITIALIZING"
  /\ pc = "idle"
  /\ ret = "none"
  /\ run = 1
  /\ method = "none"
  /\ max_steps = NoLimit
  /\ plan = << >>
  /\ planned = << >>
  /\ pending = << >>
  /\ idx = 0
  /\ nodes = << >>
  /\ node_ids = << >>
  /\ node_results = {}
  /\ wf = IdleEngine
  /\ invoking = NoInvocation
  /\ invoked = {}
  /\ last_error = "none"
  /\ faults = 0
  /\ resumes = 0
  /\ plan_cap = 0
  /\ dir = << >>
  /\ scan = NoScan
  /\ tmp = NoFile
  /\ call = NoCall
  /\ planning = NoPlanning
  /\ exe = NoExe
  /\ caps = DefaultCaps
  /\ batch = NoBatch
  /\ llm = NoLlm

NextStore ==
  \/ StoreLoad
  \/ StoreUpdate
  \/ StoreCompleteStep
  \/ StoreOpenTemp
  \/ StoreDumpTemp
  \/ StoreReplace
  \/ StoreArchive
  \/ StoreCrash

SpecStore == InitStore /\ [][NextStore]_vars


\* the one resume_task call followed between the direct calls of the store
ResumeOnce ==
  /\ resumes = 0
  /\ ResumeTask

\* a task created by create_task, direct calls of the store, and one
\* resume_task call by a controller on the same directory
NextStoreResume ==
  \/ NextStore
  \/ ResumeOnce
  \/ ConvertStep
  \/ ConvertDone
  \/ NodeBegin
  \/ NodeEnd
  \/ RecordStep
  \/ RecordComplete
  \/ RecordPop
  \/ ExecFailUpdate
  \/ ExecFailArchive
  \/ BeginArchiving
  \/ FinishArchiving
  \/ ReturnAfterExec

SpecStoreResume == InitStore /\ [][NextStoreResume]_vars


(****************************** PlannerAgent *******************************)
\* generate_plan called directly, as the planner's unit tests call it: with
\* task_id=None on an empty directory, or with the id of an existing task

\* the variables a direct generate_plan call leaves alone
plannerframe == << archive, state, pc, ret, run, method, max_steps, plan, local,
                   invoked, last_error, faults, resumes, plan_cap, dir, scan, tmp, call,
                   extra >>

\* the dependencies among the ids 1..n of the plans given to the validation:
\* below the longest length every set of declared ids for every step; at the
\* longest length at most one dependency per step (chains, self-edges, cycles
\* of every length, in any component), or any set of earlier ids
GraphDeps(n) ==
  IF n < MaxGraphLen
  THEN [1..n -> SUBSET (1..n)]
  ELSE {[i \in 1..n |-> IF g[i] = 0 THEN {} ELSE {g[i]}] : g \in [1..n -> 0..n]}
       \cup {f \in [1..n -> SUBSET (1..n)] : \A i \in 1..n : f[i] \subseteq 1..(i-1)}

\* the plans over the ids 1..n: the steps depend on declared ids, and at most
\* one step (k) on the undeclared id n+1 as well
GraphPlans(n) ==
  {[i \in 1..n |-> PlanStep(i, f[i] \cup (IF i = k THEN {n + 1} ELSE {}))]
     : f \in GraphDeps(n), k \in 0..n}

\* plans with an entry that has no id (0), an entry that has no description
\* (0), or an entry that repeats the id of the first one
DefectivePlans(n) ==
  {[i \in 1..n |-> IF i = k THEN [PlanStep(i, {}) EXCEPT !.id = 0] ELSE PlanStep(i, {})]
     : k \in 1..n}
  \cup {[i \in 1..n |-> IF i = k THEN [PlanStep(i, {}) EXCEPT !.description = 0]
                        ELSE PlanStep(i, {})] : k \in 1..n}
  \cup {[i \in 1..n |-> IF i = k THEN [PlanStep(i, {}) EXCEPT !.id = 1] ELSE PlanStep(i, {})]
     : k \in 2..n}

\* what the generator answers with a "tasks" list
ResponsePlans ==
  UNION {GraphPlans(n) \cup DefectivePlans(n) : n \in 0..MaxGraphLen}

\* the dependency the InvalidPlanError "Task ... depends on non-existent
\* task ..." names: one no entry declares (0: there is none)
missing_dependency(tasks) ==
  LET task_ids == {tasks[i].id : i \in DOMAIN tasks}
      missing == UNION {tasks[i].dependencies \ task_ids : i \in DOMAIN tasks}
  IN  IF missing = {} THEN 0 ELSE CHOOSE dep \in missing : TRUE

\* plan["tasks"], the list generate_plan persists as next_steps
PlanTasks(tasks) == tasks

\* a task an earlier call left in the directory
ExistingTask ==
  [NewTask EXCEPT !.domain = "research", !.constraints = 1,
                  !.next_steps = << StoredStep(1, "text_output") >>]

\* generate_plan(goal, constraints, domain, task_id): up to the generator call
PlannerCall ==
  /\ planning.stage = "idle"
  /\ planning' = [NoPlanning EXCEPT !.stage = "generate", !.given = disk.exists,
                                    !.domain = "coding", !.constraints = 2,
                                    !.before = disk]
  /\ UNCHANGED << disk, plannerframe >>

\* the generator raises (LLMProviderError)
PlannerGeneratorRaises ==
  /\ planning.stage = "generate"
  /\ planning' = [planning EXCEPT !.stage = "done", !.verdict = "generator_error",
                                  !.result = "raised"]
  /\ UNCHANGED << disk, plannerframe >>

\* _parse_response raises InvalidPlanError: the response is not JSON
PlannerParseFails ==
  /\ planning.stage = "generate"
  /\ planning' = [planning EXCEPT !.stage = "done", !.verdict = "parse_error",
                                  !.result = "raised"]
  /\ UNCHANGED << disk, plannerframe >>

\* _validate_plan raises InvalidPlanError: no "tasks" key, or not a list
PlannerNoTaskList ==
  /\ planning.stage = "generate"
  /\ planning' = [planning EXCEPT !.stage = "done", !.verdict = "missing_tasks_list",
                                  !.result = "raised"]
  /\ UNCHANGED << disk, plannerframe >>

\* _validate_plan on a response with a "tasks" list
PlannerValidate ==
  /\ planning.stage = "generate"
  /\ \E tasks \in ResponsePlans :
       LET verdict == validate_plan(tasks) IN
       planning' = [planning EXCEPT
                      !.tasks = tasks,
                      !.verdict = verdict,
                      !.named = IF verdict = "missing_dependency"
                                THEN missing_dependency(tasks) ELSE 0,
                      !.stage = IF verdict = "ok" THEN "persist" ELSE "done",
                      !.result = IF verdict = "ok" THEN "none" ELSE "raised"]
  /\ UNCHANGED << disk, plannerframe >>

\* the plan validated: create_task, or update_task of the given task; return task_id
PlannerPersist ==
  /\ planning.stage = "persist"
  /\ disk' = IF planning.given
             THEN UpdateTask(disk, [domain |-> planning.domain,
                                    constraints |-> planning.constraints,
                                    next_steps |-> PlanTasks(planning.tasks)])
             ELSE [NewTask EXCEPT !.domain = planning.domain,
                                  !.constraints = planning.constraints,
                                  !.next_steps = PlanTasks(planning.tasks)]
  /\ planning' = [planning EXCEPT !.stage = "done", !.result = "returned"]
  /\ UNCHANGED plannerframe

\* one direct generate_plan call
InitPlanner ==
  /\ disk \in {NoFile, ExistingTask}
  /\ archive = {}
  /\ state = "INITIALIZING"
  /\ pc = "idle"
  /\ ret = "none"
  /\ run = 0
  /\ method = "none"
  /\ max_steps = NoLimit
  /\ plan = << >>
  /\ planned = << >>
  /\ pending = << >>
  /\ idx = 0
  /\ nodes = << >>
  /\ node_ids = << >>
  /\ node_results = {}
  /\ wf = IdleEngine
  /\ invoking = NoInvocation
  /\ invoked = {}
  /\ last_error = "none"
  /\ faults = 0
  /\ resumes = 0
  /\ plan_cap = 0
  /\ dir = << >>
  /\ scan = NoScan
  /\ tmp = NoFile
  /\ call = NoCall
  /\ planning = NoPlanning
  /\ exe = NoExe
  /\ caps = DefaultCaps
  /\ batch = NoBatch
  /\ llm = NoLlm

NextPlanner ==
  \/ PlannerCall
  \/ PlannerGeneratorRaises
  \/ PlannerParseFails
  \/ PlannerNoTaskList
  \/ PlannerValidate
  \/ PlannerPersist

SpecPlanner == InitPlanner /\ [][NextPlanner]_vars


(*********************** ToolRegistry and ExecutorAgent ********************)
\* call_tool and execute_step called directly, as their unit tests call them,
\* on a registry the caller fills with register_tool.  Parameter values are
\* their JSON types; an exception is its class, the tool it names, and the text
\* it carries.

\* the variables a direct registry or executor call leaves alone
exeframe == << disk, archive, state, pc, ret, run, method, max_steps, plan, local,
               invoked, last_error, faults, resumes, plan_cap, dir, scan, tmp, call,
               planning, caps, batch, llm >>

\* the parameter contracts (ToolDefinition.parameters) of the tools followed
ToolSchemas ==
  [text_output |-> [required |-> {"text"}, strings |-> {"text"}, integers |-> {},
                    closed |-> TRUE],
   web_search  |-> [required |-> {"query"}, strings |-> {"query", "provider"},
                    integers |-> {"max_results"}, closed |-> FALSE]]

ToolNames == DOMAIN ToolSchemas

\* the keyword arguments given to call_tool: some keys, each with a string or
\* an integer
ParamKeys == {"text", "query", "max_results"}

ParamChoices == UNION {[K -> {"string", "integer"}] : K \in SUBSET ParamKeys}

\* the errors jsonschema finds in the arguments: a required key that is
\* missing, a value of the wrong type, a key the closed contract does not declare
Violations(schema, params) ==
  {[kind |-> "required", field |-> k] : k \in schema.required \ DOMAIN params}
  \cup {[kind |-> "type", field |-> k] :
          k \in {j \in DOMAIN params :
                   \/ j \in schema.strings /\ params[j] # "string"
                   \/ j \in schema.integers /\ params[j] # "integer"}}
  \cup {[kind |-> "additionalProperties", field |-> k] :
          k \in {j \in DOMAIN params :
                   schema.closed /\ j \notin schema.strings \cup schema.integers}}

\* an exception: its class, the tool its message names, and what the message
\* says (kind and text)
ToolError(class, name, kind, text) ==
  [class |-> class, name |-> name, kind |-> kind, text |-> text]

\* variant of ExecutionFailed in which the tool's exception is raised as it is
ExecutionFailedRaw(name, thrown) ==
  ToolError("RuntimeError", "", "exception", thrown)

\* raise ToolExecutionError(f"Tool '{name}' execution failed: {e}") from e
ExecutionFailed(name, thrown) ==
  ToolError("ToolExecutionError", name, "execution_failed", thrown)

\* call_tool up to "await tool.execute(**kwargs)": the exceptions it can raise
\* before (the validation raises for one of the errors found), NoError when
\* it goes on to execute the tool
CallToolChecks(tools, name, params) ==
  IF name \notin tools
  THEN {ToolError("ToolNotFoundError", name, "not_found", "none")}
  ELSE IF Violations(ToolSchemas[name], params) # {}
  THEN {ToolError("ToolParameterValidationError", name, v.kind, v.field)
          : v \in Violations(ToolSchemas[name], params)}
  ELSE {NoError}

\* what the tool's execute returns: text_output its text, web_search a result list
ToolValue(name, params) == IF name = "text_output" THEN params["text"] ELSE "results"

\* the messages of the exceptions a tool's execute raises
ThrownTexts == {"boom", "timeout"}

\* str(e): the message without the class
Str(e) == [e EXCEPT !.class = "str"]

\* variant of ExecutorCatches that handles ToolExecutionError only
ExecutorCatchesExecutionError(class) == class = "ToolExecutionError"

\* "except Exception" around the call_tool of execute_step: every exception
\* class followed here derives from Exception
ExecutorCatches(class) ==
  class \in {"ToolNotFoundError", "ToolParameterValidationError", "ToolExecutionError",
             "RuntimeError"}

\* variant of NeedsTool that goes on to call_tool for every selection
NeedsToolAlways(tool_name) == TRUE

\* not (tool_name == "none" or not tool_name); "" is a missing, null or empty name
NeedsTool(tool_name) == tool_name # "none" /\ tool_name # ""

\* registry.register_tool(tool): self._tools[name] = tool
RegisterTool ==
  /\ exe.stage \in {"idle", "done"}
  /\ \E name \in ToolNames \ exe.tools :
       exe' = [exe EXCEPT !.tools = @ \cup {name}]
  /\ UNCHANGED exeframe

\* a new call on the registry (known: the tools registered when it is made);
\* what the last call left is gone
NewCall(op) ==
  [NoExe EXCEPT !.op = op, !.n = exe.n + 1, !.tools = exe.tools, !.known = exe.tools]

\* a call that ended with an exception
Raised(e, error) == [e EXCEPT !.stage = "done", !.ended = "raised", !.error = error]

\* execute_step returns {"status": "FAILED", "error": ..., "tool": ...}
ReturnedFailed(e, error_text, tool) ==
  [e EXCEPT !.stage = "done", !.ended = "returned", !.status = "FAILED",
            !.error = error_text, !.tool = tool]

\* call_tool(name, **kwargs) called directly, up to "await tool.execute"
RegistryCall ==
  /\ exe.stage \in {"idle", "done"}
  /\ exe.n < MaxToolCalls
  /\ \E name \in ToolNames \cup {UnknownTool} : \E params \in ParamChoices :
     \E check \in CallToolChecks(exe.tools, name, params) :
       LET e == [NewCall("call_tool") EXCEPT !.name = name, !.params = params,
                                             !.attempts = 1]
       IN  exe' = IF check = NoError
                  THEN [e EXCEPT !.stage = "executing", !.executes = 1]
                  ELSE Raised(e, check)
  /\ UNCHANGED exeframe

\* execute_step(step_description) up to "await self.llm.generate(full_prompt)"
ExecutorCall ==
  /\ exe.stage \in {"idle", "done"}
  /\ exe.n < MaxToolCalls
  /\ exe' = [NewCall("execute_step") EXCEPT !.stage = "generate",
                                            !.generator_calls = 1]
  /\ UNCHANGED exeframe

\* the generator raises: execute_step has no handler around the call
ExecutorGeneratorRaises ==
  /\ exe.stage = "generate"
  /\ exe' = Raised([exe EXCEPT !.response = "exception"],
                   ToolError("LLMProviderError", "", "generator_error", "none"))
  /\ UNCHANGED exeframe

\* the response is JSON but no object: selection.get raises AttributeError
ExecutorNotAnObject ==
  /\ exe.stage = "generate"
  /\ exe' = Raised([exe EXCEPT !.response = "not_object"],
                   ToolError("AttributeError", "", "no_get", "none"))
  /\ UNCHANGED exeframe

\* the response after _parse_response: an object with "tool" and "params", or
\* {"tool": "none", ...} for a response that does not parse; then the "none"
\* return, or call_tool up to "await tool.execute"
ExecutorSelect ==
  /\ exe.stage = "generate"
  /\ \E response \in {"unparseable", "object"} :
     \E tool_name \in (IF response = "object"
                       THEN ToolNames \cup {UnknownTool, "none", ""} ELSE {"none"}) :
     \E params \in (IF tool_name \in ToolNames THEN ParamChoices ELSE {<< >>}) :
       LET e == [exe EXCEPT !.response = response, !.name = tool_name,
                            !.params = params]
       IN  IF ~NeedsTool(tool_name)
           THEN exe' = ReturnedFailed(e,
                         ToolError("str", "", "no_suitable_tool",
                                   IF response = "object" THEN "rationale"
                                   ELSE "invalid_response_format"),
                         "none")
           ELSE \E check \in CallToolChecks(exe.tools, tool_name, params) :
                  LET e1 == [e EXCEPT !.attempts = @ + 1] IN
                  exe' = IF check = NoError
                         THEN [e1 EXCEPT !.stage = "executing", !.executes = @ + 1]
                         ELSE IF ExecutorCatches(check.class)
                         THEN ReturnedFailed(e1, Str(check), tool_name)
                         ELSE Raised(e1, check)
  /\ UNCHANGED exeframe

\* tool.execute ends: call_tool returns its result, or wraps its exception;
\* execute_step returns the result as SUCCESS, the exception as FAILED
ToolExecuteEnd ==
  /\ exe.stage = "executing"
  /\ \E thrown \in ThrownTexts \cup {"none"} :
       LET e == [exe EXCEPT !.thrown = thrown]
           error == ExecutionFailed(exe.name, thrown)
       IN  exe' =
             IF thrown = "none"
             THEN IF exe.op = "call_tool"
                  THEN [e EXCEPT !.stage = "done", !.ended = "returned",
                                 !.value = ToolValue(exe.name, exe.params)]
                  ELSE [e EXCEPT !.stage = "done", !.ended = "returned",
                                 !.status = "SUCCESS", !.tool = exe.name,
                                 !.value = ToolValue(exe.name, exe.params)]
             ELSE IF exe.op = "execute_step" /\ ExecutorCatches(error.class)
             THEN ReturnedFailed(e, Str(error), exe.name)
             ELSE Raised(e, error)
  /\ UNCHANGED exeframe

\* a registry that is filled, and direct calls of call_tool and execute_step
NextExecutor ==
  \/ RegisterTool
  \/ RegistryCall
  \/ ExecutorCall
  \/ ExecutorGeneratorRaises
  \/ ExecutorNotAnObject
  \/ ExecutorSelect
  \/ ToolExecuteEnd

SpecExecutor == Init /\ [][NextExecutor]_vars


(************************* orchestrate_task_batch ***************************)
\* orchestrate_task_batch on a working directory that earlier runs may have
\* left tasks in.  Each run_task of the batch is one step: it returns with its
\* task archived as COMPLETED or FAILED.

\* the variables an orchestrate_task_batch call on the directory leaves alone
batchframe == << tmp, call, planning, scan, exe, caps, llm, ctl >>

\* what earlier runs can have left under a task id: nothing, an archived
\* COMPLETED or FAILED task, a stalled task whose steps still need a tool
PriorEntries ==
  { DirEntry("NONE", "none", FALSE, FALSE, TRUE),
    DirEntry("ARCHIVED", "COMPLETED", FALSE, TRUE, TRUE),
    DirEntry("ARCHIVED", "FAILED", FALSE, TRUE, TRUE),
    DirEntry("ACTIVE", "IN_PROGRESS", FALSE, TRUE, FALSE) }

\* the id of the task the next create_task makes
NewTaskId(d) == Cardinality(DOMAIN d) + 1

\* goals[:max_tasks]: the number of goals the loop goes through
BatchLength(goals, max_tasks) == IF max_tasks < goals THEN max_tasks ELSE goals

\* the task supervisor_resume_stalled_tasks(min_age_seconds, max_tasks=1)
\* resumes: the first summary that is active, IN_PROGRESS, without
\* current_step and old enough (0: there is none)
FirstStalled(d) ==
  LET summaries == list_task_summaries(d)
      eligible == {i \in DOMAIN summaries :
                     /\ summaries[i].lifecycle = "ACTIVE"
                     /\ summaries[i].status = "IN_PROGRESS"
                     /\ ~summaries[i].has_current_step
                     /\ d[summaries[i].task_id].old}
  IN  IF eligible = {} THEN 0
      ELSE summaries[CHOOSE i \in eligible : \A j \in eligible : i <= j].task_id

\* sum(analytics["failed_by_cause"].values()) of summarize_task_outcomes: the
\* active and archived tasks of the directory whose status is FAILED
FailedTotal(d) ==
  Cardinality({t \in DOMAIN d : d[t].lifecycle # "NONE" /\ d[t].status = "FAILED"})

\* the call starts: task_ids = [], decisions = [], stop_reason = "no_goals"
BatchStart ==
  /\ batch.stage = "idle"
  /\ \E goals \in 0 .. MaxGoals : \E max_tasks \in 0 .. MaxGoals :
       batch' = [NoBatch EXCEPT !.stage = "running", !.goals = goals,
                                !.max_tasks = max_tasks, !.pos = 1,
                                !.stop_reason = "no_goals", !.dir0 = dir]
  /\ UNCHANGED << dir, batchframe >>

\* one round of the loop up to the supervisor call: a new controller runs the goal
BatchRunTask ==
  /\ batch.stage = "running"
  /\ batch.pos <= BatchLength(batch.goals, batch.max_tasks)
  /\ \E outcome \in {"COMPLETED", "FAILED"} :
       LET task_id == NewTaskId(dir) IN
       /\ dir' = [t \in DOMAIN dir \cup {task_id} |->
                    IF t = task_id THEN DirEntry("ARCHIVED", outcome, FALSE, FALSE, TRUE)
                    ELSE dir[t]]
       /\ batch' = [batch EXCEPT !.stage = "supervise",
                                 !.task_ids = Append(@, task_id)]
  /\ UNCHANGED batchframe

\* ... the supervisor call, which resumes at most one stalled task and can
\* raise; then the analytics and the decision
BatchDecide ==
  /\ batch.stage = "supervise"
  /\ LET stalled == FirstStalled(dir) IN
     \E outcome \in (IF stalled = 0 THEN {"none"} ELSE ResumeOutcomes(dir[stalled])) :
       LET dir1 == IF outcome \in {"COMPLETED", "FAILED"}
                   THEN [dir EXCEPT ![stalled] =
                           DirEntry("ARCHIVED", outcome, FALSE, FALSE, TRUE)]
                   ELSE dir
           action == IF FailedTotal(dir1) > 0 THEN "stop" ELSE "continue"
       IN  IF outcome = "raised"
           THEN /\ batch' = [batch EXCEPT !.stage = "raised"]
                /\ dir' = dir
           ELSE /\ dir' = dir1
                /\ batch' = [batch EXCEPT
                     !.actions = Append(@, action),
                     !.stop_reason = IF action = "stop" THEN "failure_detected" ELSE @,
                     !.stage = IF action = "stop" THEN "finish" ELSE "running",
                     !.pos = IF action = "stop" THEN @ ELSE @ + 1]
  /\ UNCHANGED batchframe

\* after the loop: stop_reason max_tasks_reached when nothing stopped it; return
BatchReturn ==
  /\ \/ batch.stage = "finish"
     \/ /\ batch.stage = "running"
        /\ batch.pos > BatchLength(batch.goals, batch.max_tasks)
  /\ batch' = [batch EXCEPT
       !.stage = "returned",
       !.stop_reason =
          IF /\ batch.task_ids # << >>
             /\ batch.stop_reason = "no_goals"
             /\ Len(batch.task_ids) >= BatchLength(batch.goals, batch.max_tasks)
          THEN "max_tasks_reached" ELSE @]
  /\ UNCHANGED << dir, batchframe >>

\* one orchestrate_task_batch call on a directory with up to MaxTasks earlier tasks
InitBatch ==
  /\ disk = NoFile
  /\ archive = {}
  /\ state = "INITIALIZING"
  /\ pc = "idle"
  /\ ret = "none"
  /\ run = 0
  /\ method = "none"
  /\ max_steps = NoLimit
  /\ plan = << >>
  /\ planned = << >>
  /\ pending = << >>
  /\ idx = 0
  /\ nodes = << >>
  /\ node_ids = << >>
  /\ node_results = {}
  /\ wf = IdleEngine
  /\ invoking = NoInvocation
  /\ invoked = {}
  /\ last_error = "none"
  /\ faults = 0
  /\ resumes = 0
  /\ plan_cap = 0
  /\ dir \in [TaskIds -> PriorEntries]
  /\ scan = NoScan
  /\ tmp = NoFile
  /\ call = NoCall
  /\ planning = NoPlanning
  /\ exe = NoExe
  /\ caps = DefaultCaps
  /\ batch = NoBatch
  /\ llm = NoLlm

NextBatch ==
  \/ BatchStart
  \/ BatchRunTask
  \/ BatchDecide
  \/ BatchReturn

SpecBatch == InitBatch /\ [][NextBatch]_vars


(****************************** OpenAIProvider ******************************)
\* generate called directly on a client built with max_retries, as the
\* provider's unit tests call it (the HTTP client is replaced by a mock)

\* the variables a generate call leaves alone
llmframe == << dir, scan, tmp, call, planning, exe, caps, batch, ctl >>

\* the errors the except clause around the request retries
TransientErrors == {"APITimeoutError", "APIConnectionError", "RateLimitError"}

\* how one chat.completions.create can end: a response with content, a
\* response whose content is None, a transient error, another APIError,
\* any other exception
RequestOutcomes == {"content", "empty"} \cup TransientErrors \cup {"APIError", "Exception"}

\* 2 ** attempt
RECURSIVE Backoff(_)
Backoff(attempt) == IF attempt = 0 THEN 1 ELSE 2 * Backoff(attempt - 1)

\* OpenAIProvider(..., max_retries) and generate(prompt) up to the loop test
ProviderCall ==
  /\ llm.stage = "idle"
  /\ \E max_retries \in 0 .. MaxRetries :
       llm' = [NoLlm EXCEPT !.stage = "loop", !.max_retries = max_retries]
  /\ UNCHANGED llmframe

\* "while attempt < self.max_retries": the next request is sent, or the loop
\* is left and LLMProviderError("... failed after n attempts") is raised
ProviderLoop ==
  /\ llm.stage = "loop"
  /\ llm' = IF llm.attempt < llm.max_retries
            THEN [llm EXCEPT !.stage = "request", !.requests = @ + 1]
            ELSE [llm EXCEPT !.stage = "done", !.result = "raised",
                             !.error = "LLMProviderError_after_attempts"]
  /\ UNCHANGED llmframe

\* the request ends, and the except clause that handles its outcome
ProviderResponse ==
  /\ llm.stage = "request"
  /\ \E outcome \in RequestOutcomes :
       LET l == [llm EXCEPT !.log = Append(@, outcome)]
           attempt == llm.attempt + 1
       IN  llm' =
             IF outcome = "content"
             THEN [l EXCEPT !.stage = "done", !.result = "returned"]
             ELSE IF outcome \in TransientErrors
             THEN IF attempt >= llm.max_retries
                  THEN [l EXCEPT !.attempt = attempt, !.last_error = outcome,
                                 !.stage = "done", !.result = "raised",
                                 !.error = "LLMProviderError_after_attempts"]
                  ELSE [l EXCEPT !.attempt = attempt, !.last_error = outcome,
                                 !.stage = "sleep",
                                 !.waits = Append(@, Backoff(attempt))]
             ELSE IF outcome = "APIError"
             THEN [l EXCEPT !.stage = "done", !.result = "raised",
                            !.error = "LLMProviderError_api_error"]
             ELSE [l EXCEPT !.stage = "done", !.result = "raised",
                            !.error = "LLMProviderError_unexpected"]
  /\ UNCHANGED llmframe

\* await asyncio.sleep(wait_time) ends: back to the loop test
ProviderWake ==
  /\ llm.stage = "sleep"
  /\ llm' = [llm EXCEPT !.stage = "loop"]
  /\ UNCHANGED llmframe

\* one generate call on a client built with max_retries of 0 to MaxRetries
NextProvider ==
  \/ ProviderCall
  \/ ProviderLoop
  \/ ProviderResponse
  \/ ProviderWake

SpecProvider == Init /\ [][NextProvider]_vars


(********************* the engine on longer plans **************************)
\* one run_task call on a fresh controller whose planner answers plans of up
\* to MaxEnginePlanLen steps, so that a step with two dependencies that
\* share a dependency of their own (four steps) is among them
InitEngine ==
  /\ disk = NoFile
  /\ archive = {}
  /\ state = "INITIALIZING"
  /\ pc = "idle"
  /\ ret = "none"
  /\ run = 0
  /\ method = "none"
  /\ max_steps = NoLimit
  /\ plan = << >>
  /\ planned = << >>
  /\ pending = << >>
  /\ idx = 0
  /\ nodes = << >>
  /\ node_ids = << >>
  /\ node_results = {}
  /\ wf = IdleEngine
  /\ invoking = NoInvocation
  /\ invoked = {}
  /\ last_error = "none"
  /\ faults = 0
  /\ resumes = 0
  /\ plan_cap = MaxEnginePlanLen
  /\ dir = << >>
  /\ scan = NoScan
  /\ tmp = NoFile
  /\ call = NoCall
  /\ planning = NoPlanning
  /\ exe = NoExe
  /\ caps = DefaultCaps
  /\ batch = NoBatch
  /\ llm = NoLlm

SpecEngine == InitEngine /\ [][Next]_vars

(************************ the fixed lifecycle runs *************************)
\* run_voice_lifecycle, run_research_lifecycle and run_conversation_lifecycle
\* on a fresh controller: a task is created with fixed next_steps that carry
\* their tools, and _execute_with_workflow_engine runs with
\* use_executor=False.  The steps have neither id nor dependencies, and every
\* tool they name is one the constructor registers.

Lifecycles ==
  {"run_voice_lifecycle", "run_research_lifecycle", "run_conversation_lifecycle"}

\* a fixed step: description and tool; no id (0), no dependencies
FixedStep(description, tool) ==
  [id |-> 0, description |-> description, dependencies |-> {}, tool |-> tool]

\* the next_steps each lifecycle gives to create_task
LifecycleSteps(kind, turns) ==
  IF kind = "run_voice_lifecycle"
  THEN << FixedStep(1, "voice_wake_word"), FixedStep(2, "voice_stt"),
          FixedStep(3, "text_output"), FixedStep(4, "voice_tts") >>
  ELSE IF kind = "run_research_lifecycle"
  THEN << FixedStep(1, "web_search"), FixedStep(2, "text_output") >>
  ELSE [k \in 1 .. 2 * turns |-> FixedStep(k, "text_output")]

LifecycleDomain(kind) ==
  IF kind = "run_voice_lifecycle" THEN "voice"
  ELSE IF kind = "run_research_lifecycle" THEN "research" ELSE "conversation"

\* the artifact run_research_lifecycle puts in place of the raw result of
\* web_search: the dict {query, provider, max_results, result}.  Raw
\* artifacts are naturals; the dict around raw_result is the negative
\* number -(raw_result + 1), different from every raw artifact.
ResearchArtifact(raw_result) == 0 - (raw_result + 1)

\* the loop "for step in completed_steps" of run_research_lifecycle
WrapSearchArtifacts(completed_steps) ==
  [k \in DOMAIN completed_steps |->
     IF completed_steps[k].tool_name = "web_search"
     THEN [completed_steps[k] EXCEPT !.artifact = ResearchArtifact(@)]
     ELSE completed_steps[k]]

\* a lifecycle run up to _convert_plan_to_workflow_nodes: state EXECUTING,
\* create_task with the fixed steps
LifecycleStart ==
  /\ pc = "idle"
  /\ run = 0
  /\ run' = 1
  /\ \E kind \in Lifecycles : \E turns \in 0 .. MaxTurns :
       /\ kind # "run_conversation_lifecycle" => turns = 0
       /\ method' = kind
       /\ disk' = [NewTask EXCEPT !.next_steps = LifecycleSteps(kind, turns),
                                  !.domain = LifecycleDomain(kind),
                                  !.constraints = 1]
       /\ pending' = LifecycleSteps(kind, turns)
  /\ max_steps' = NoLimit
  /\ state' = "EXECUTING"
  /\ last_error' = "none"
  /\ invoked' = {}
  /\ idx' = 1
  /\ pc' = "convert"
  /\ ret' = "none"
  /\ UNCHANGED << archive, plan, planned, nodes, node_ids, node_results, wf, invoking,
                  faults, resumes, plan_cap, aux >>

\* SimpleToolNode.execute without executor: registry.get_tool finds the tool
\* (all five are registered) and tool.execute starts with the step's own
\* parameters
NodeBeginDirect ==
  /\ pc = "wf"
  /\ invoking = NoInvocation
  /\ \E nid \in (IF wf.mode = "linear" THEN {wf.current} ELSE wf.ready) :
       /\ invoking' = [node |-> nid, tool |-> NodeOf(nodes, nid).tool_name]
       /\ invoked' = invoked \cup {nid}
  /\ UNCHANGED << pending, disk, archive, state, pc, ret, run, method, max_steps, plan,
                  planned, idx, nodes, node_ids, node_results, wf, last_error, faults,
                  resumes, plan_cap, aux >>

\* run_research_lifecycle after the workflow: load_task (FileNotFoundError
\* when the failure block has archived the task: the call raises), the
\* artifact of each web_search record is replaced, and
\* update_task(completed_steps) when there are records
ResearchRewrite ==
  /\ pc = "after_exec"
  /\ method = "run_research_lifecycle"
  /\ IF LoadRaises(disk)
     THEN /\ pc' = "idle"
          /\ ret' = "raised"
          /\ disk' = disk
     ELSE /\ disk' = IF disk.completed_steps # << >>
                     THEN UpdateTask(disk,
                            [completed_steps |-> WrapSearchArtifacts(disk.completed_steps)])
                     ELSE disk
          /\ pc' = "life_archive"
          /\ ret' = ret
  /\ UNCHANGED << archive, state, run, method, max_steps, plan, local, invoked,
                  last_error, faults, resumes, plan_cap, aux >>

\* the end of a lifecycle run: unless the state is FAILED,
\* update_task(status COMPLETED), archive_task, state COMPLETED; the session
\* file written next to the archive is left out; return task_id
LifecycleFinish ==
  /\ \/ pc = "life_archive"
     \/ pc = "after_exec" /\ method \in Lifecycles \ {"run_research_lifecycle"}
  /\ IF state # "FAILED"
     THEN /\ archive' = ArchiveTask(archive, UpdateTask(disk, [status |-> "COMPLETED"]),
                                    "completed")
          /\ disk' = NoFile
          /\ state' = "COMPLETED"
     ELSE UNCHANGED << disk, archive, state >>
  /\ Return
  /\ UNCHANGED << run, method, max_steps, plan, local, invoked, last_error,
                  faults, resumes, plan_cap, aux >>

NextLifecycle ==
  \/ LifecycleStart
  \/ ConvertStep
  \/ ConvertDone
  \/ NodeBeginDirect
  \/ NodeEnd
  \/ RecordStep
  \/ RecordComplete
  \/ RecordPop
  \/ ExecFailUpdate
  \/ ExecFailArchive
  \/ ResearchRewrite
  \/ LifecycleFinish

SpecLifecycle == Init /\ [][NextLifecycle]_vars

(****************** resume_task calls one after the other ******************)
\* a task created through the store with the steps of a validated plan (no
\* tool resolved yet), then resume_task calls, each by a new controller
\* instance, with or without max_steps; no crash

\* the next_steps given to create_task
ChainedPlans ==
  { p \in PlansUpTo(MaxResumePlanLen) : validate_plan(p) = "ok" }

InitChained ==
  /\ \E p \in ChainedPlans :
       /\ disk = [NewTask EXCEPT !.next_steps = p]
       /\ plan = p
  /\ archive = {}
  /\ state = "INITIALIZING"
  /\ pc = "idle"
  /\ ret = "none"
  /\ run = 1
  /\ method = "none"
  /\ max_steps = NoLimit
  /\ planned = << >>
  /\ pending = << >>
  /\ idx = 0
  /\ nodes = << >>
  /\ node_ids = << >>
  /\ node_results = {}
  /\ wf = IdleEngine
  /\ invoking = NoInvocation
  /\ invoked = {}
  /\ last_error = "none"
  /\ faults = 0
  /\ resumes = 0
  /\ plan_cap = MaxResumePlanLen
  /\ dir = << >>
  /\ scan = NoScan
  /\ tmp = NoFile
  /\ call = NoCall
  /\ planning = NoPlanning
  /\ exe = NoExe
  /\ caps = DefaultCaps
  /\ batch = NoBatch
  /\ llm = NoLlm

\* a resume_task call, at most MaxChainedResumes of them in one behaviour
ResumeChained ==
  /\ resumes < MaxChainedResumes
  /\ ResumeCall

NextChained ==
  \/ ResumeChained
  \/ ConvertStep
  \/ ConvertDone
  \/ NodeBegin
  \/ NodeEnd
  \/ RecordStep
  \/ RecordComplete
  \/ RecordPop
  \/ ExecFailUpdate
  \/ ExecFailArchive
  \/ BeginArchiving
  \/ FinishArchiving
  \/ ReturnAfterExec

SpecChained == InitChained /\ [][NextChained]_vars

(********************* one controller, several tasks ***********************)
\* orchestrate_task_batch runs run_task and then supervisor_resume_stalled_tasks
\* on the same controller instance: the scan's resume_task call works with
\* the WorkflowEngine the run_task call has used.  The engine is built once,
\* in the constructor; add_node only adds to self.nodes and nothing empties
\* self.nodes or self.node_results between two calls.

\* the next_steps of the stalled task the scan finds: independent steps whose
\* tools were resolved
StalledSteps ==
  { [i \in 1 .. n |-> StoredStep(i, "text_output")] : n \in 1 .. MaxResumePlanLen }

\* the scan resumes a stalled task (status IN_PROGRESS, no current_step) of
\* the directory, after the task of run_task has left the active directory:
\* resume_task up to _execute_remaining_steps, on the instance run_task used
ResumeOnSharedController ==
  /\ pc = "idle"
  /\ run >= 1
  /\ ~disk.exists
  /\ resumes < MaxResumes
  /\ resumes' = resumes + 1
  /\ run' = run + 1
  /\ method' = "resume_task"
  /\ max_steps' = NoLimit
  /\ last_error' = "none"
  /\ invoked' = {}
  /\ planned' = << >>
  /\ node_ids' = << >>
  /\ wf' = IdleEngine
  /\ invoking' = NoInvocation
  /\ \E steps \in StalledSteps :
       /\ disk' = [NewTask EXCEPT !.status = "IN_PROGRESS", !.next_steps = steps]
       /\ pending' = steps
  /\ state' = "EXECUTING"
  /\ pc' = "convert"
  /\ ret' = "none"
  /\ idx' = 1
  /\ UNCHANGED << archive, plan, nodes, node_results, faults, plan_cap, aux >>

NextShared ==
  \/ Next
  \/ ResumeOnSharedController

SpecShared == Init /\ [][NextShared]_vars

(********************* the engine called directly **************************)
\* WorkflowEngine is a public class: add_node registers any node, whatever
\* its dependencies name, and execute_workflow runs what is registered.

\* an id no node is registered under
UnregisteredId == NodeId(MaxNodes, "unknown")

\* the ids a node's dependencies are drawn from: the ids of the nodes that
\* can be registered (the node's own id among them) and the unregistered one
DependencyIds ==
  {NodeId(k, "text_output") : k \in 0 .. MaxNodes - 1} \cup {UnregisteredId}

\* engine.add_node(node) for a new SimpleToolNode with any dependencies
RegisterNode ==
  /\ pc = "idle"
  /\ method = "none"
  /\ Len(nodes) < MaxNodes
  /\ \E deps \in SUBSET DependencyIds :
       nodes' = AddNode(nodes, [id |-> NodeId(Len(nodes), "text_output"),
                                description |-> Len(nodes) + 1,
                                tool_name |-> "text_output",
                                dependencies |-> deps])
  /\ UNCHANGED << disk, archive, state, pc, ret, run, method, max_steps, plan, planned,
                  pending, idx, node_ids, node_results, wf, invoking, invoked,
                  last_error, faults, resumes, plan_cap, aux >>

\* execute_workflow up to the first node execution: no start node: ValueError,
\* caught, status "failed"; one: _execute_linear_workflow; several:
\* _execute_linear_workflow_with_dependencies, whose first round has all of
\* them ready
ExecuteWorkflow ==
  /\ pc = "idle"
  /\ method = "none"
  /\ method' = "execute_workflow"
  /\ run' = run + 1
  /\ LET start == StartNodes(nodes) IN
     IF start = << >>
     THEN /\ last_error' = "workflow_failed_no_starting_nodes"
          /\ Return
          /\ wf' = wf
     ELSE /\ pc' = "wf"
          /\ ret' = "none"
          /\ wf' = IF Len(start) = 1
                   THEN [IdleEngine EXCEPT !.mode = "linear", !.current = start[1]]
                   ELSE [IdleEngine EXCEPT !.mode = "deps", !.ready = SeqToSet(start)]
          /\ last_error' = last_error
  /\ UNCHANGED << disk, archive, state, max_steps, plan, planned, pending, idx, nodes,
                  node_ids, node_results, invoking, invoked, faults, resumes,
                  plan_cap, aux >>

\* the loop has ended: execute_workflow returns status "completed"
WorkflowCompleted ==
  /\ pc = "record"
  /\ method = "execute_workflow"
  /\ Return
  /\ UNCHANGED << disk, archive, state, run, method, max_steps, plan, planned, pending,
                  idx, nodes, node_ids, node_results, wf, invoking, invoked,
                  last_error, faults, resumes, plan_cap, aux >>

NextWorkflow ==
  \/ RegisterNode
  \/ ExecuteWorkflow
  \/ NodeBegin
  \/ NodeEnd
  \/ WorkflowCompleted

SpecWorkflow == Init /\ [][NextWorkflow]_vars

\* the same with progress: once execute_workflow is called, the event loop
\* runs it as long as it has a next step
SpecWorkflowFair ==
  SpecWorkflow /\ WF_vars(NodeBegin \/ NodeEnd \/ WorkflowCompleted)

(***************************************************************************)
(* Properties.  Unless said otherwise a property is stated for Spec (one   *)
(* run_task call); the ones about crashes and resume_task are stated for   *)
(* SpecResume.                                                             *)
(***************************************************************************)
\* the public call of this behaviour's last run has ended by "return"
Returned == pc = "idle" /\ ret = "returned"

\* the archived file with the given reason is the only archived file
OnlyArchived(reason) ==
  /\ Cardinality(archive) = 1
  /\ \A a \in archive : a.reason = reason

\* C1: run_task never raises.  Whatever the generator answers (an
\* unparseable or invalid plan, an exception, an unresolvable step) and
\* whatever the tools do (a FAILED outcome, an exception), the call does not
\* end with an exception and does not hang: while it is in progress a next
\* step exists, and when it has ended it has returned the task_id with the
\* controller state COMPLETED or FAILED.
C1_RunTaskNeverRaises ==
  /\ ret # "raised"
  /\ pc # "wf_spin"
  /\ (method = "run_task" /\ pc # "idle") => ENABLED Next
  /\ (method = "run_task" /\ pc = "idle") =>
        (ret = "returned" /\ state \in {"COMPLETED", "FAILED"})

\* C1's case: a tool raised, run_task returned in state FAILED
C1_Witness ==
  /\ Returned
  /\ method = "run_task"
  /\ state = "FAILED"
  /\ last_error = "tool_execution_failed"

\* C2: archival round-trip.  When run_task or resume_task has returned with
\* the controller state COMPLETED or FAILED, the active file is gone and
\* exactly one archived file exists, whose status is the controller state.
C2_ArchivalRoundTrip ==
  (Returned /\ state \in {"COMPLETED", "FAILED"}) =>
     /\ ~disk.exists
     /\ Cardinality(archive) = 1
     /\ \A a \in archive : a.state.status = state

\* C2's case: resume_task, called after a crash, has completed and archived the task
C2_Witness ==
  /\ Returned
  /\ method = "resume_task"
  /\ state = "COMPLETED"
  /\ ~disk.exists
  /\ OnlyArchived("completed")

\* the record of the plan step at position i: the records whose index is i - 1
RecordsOf(d, i) == {k \in DOMAIN d.completed_steps : d.completed_steps[k].index = i - 1}

\* the nodes whose tool was started and ended with SUCCESS
Succeeded == {n \in invoked : \E r \in node_results : r.id = n /\ r.status = "SUCCESS"}

\* C3: run_task archives a task as COMPLETED only if next_steps is empty and
\* every step of the validated plan had its tool invoked with a SUCCESS
\* outcome and has exactly one record in completed_steps, and every record
\* comes from a tool invocation.
C3_CompletedOnlyIfEveryStepRan ==
  \A a \in archive :
    (method = "run_task" /\ a.state.status = "COMPLETED") =>
       /\ a.state.next_steps = << >>
       /\ \A i \in DOMAIN plan :
            /\ \E n \in Succeeded : n.index = i - 1
            /\ Cardinality(RecordsOf(a.state, i)) = 1
       /\ \A k \in DOMAIN a.state.completed_steps :
            \E n \in Succeeded : n.index = a.state.completed_steps[k].index

\* the moves of the controller state the state machine allows
AllowedMoves ==
  {<< "INITIALIZING", "PLANNING" >>, << "PLANNING", "EXECUTING" >>,
   << "EXECUTING", "ARCHIVING" >>, << "ARCHIVING", "COMPLETED" >>,
   << "PLANNING", "FAILED" >>, << "EXECUTING", "FAILED" >>, << "ARCHIVING", "FAILED" >>}

\* C4: within one run the controller state moves only along PLANNING,
\* EXECUTING, ARCHIVING, COMPLETED, or to FAILED from a state that is not
\* terminal; so COMPLETED is entered from ARCHIVING only, and COMPLETED and
\* FAILED are never left.
C4_StateOrder ==
  [][state' # state => << state, state' >> \in AllowedMoves]_vars

\* C4's case: a run has gone through every state up to COMPLETED
C4_Witness ==
  /\ state = "COMPLETED"
  /\ pc = "idle"
  /\ Len(plan) >= 2

\* the messages of the InvalidPlanError the planner raises
PlannerErrors == {"parse_error", "no_tasks", "missing_dependency", "circular_dependencies"}

\* the task was archived as a planning failure with the given error text
ArchivedAsPlanningFailure(err) ==
  /\ ~disk.exists
  /\ OnlyArchived("failed_plan")
  /\ \A a \in archive : /\ a.state.status = "FAILED"
                        /\ a.state.failure_cause = "planning_invalid"
                        /\ a.state.error = err

\* C5: when planning raises InvalidPlanError, run_task sets the state FAILED,
\* persists status FAILED with failure_cause planning_invalid and the error
\* text, archives with reason failed_plan and returns, and no tool is invoked.
C5_InvalidPlanFailsPlanning ==
  (method = "run_task" /\ last_error \in PlannerErrors) =>
     /\ state = "FAILED"
     /\ invoked = {}
     /\ pc \in {"planfail_update", "planfail_archive", "idle"}
     /\ pc = "planfail_archive" =>
          /\ disk.status = "FAILED"
          /\ disk.failure_cause = "planning_invalid"
          /\ disk.error = last_error
     /\ pc = "idle" => (ret = "returned" /\ ArchivedAsPlanningFailure(last_error))

\* C5's case: the planner rejected a plan with a cycle and run_task returned
C5_Witness ==
  /\ Returned
  /\ last_error = "circular_dependencies"
  /\ ArchivedAsPlanningFailure("circular_dependencies")


\* the messages of the InvalidPlanError the pre-resolution loop raises
ResolutionErrors ==
  {"not_executable_no_matching_tool", "not_executable_tool_not_registered"}

\* C6: fail-fast pre-resolution.  A tool is invoked only when every planned
\* step resolved to a registered tool; when the selection for a step yields
\* "none" (also the answer without a tool) or a name that is not registered,
\* run_task takes the planning failure path (state FAILED, planning_invalid,
\* archive reason failed_plan) and no tool of any step has been invoked.
C6_FailFastPreResolution ==
  /\ (method = "run_task" /\ invoked # {}) =>
        \A i \in DOMAIN planned : planned[i].tool \in RegisteredTools
  /\ (method = "run_task" /\ last_error \in ResolutionErrors) =>
        /\ state = "FAILED"
        /\ invoked = {}
        /\ node_results = {}
        /\ pc \in {"planfail_update", "planfail_archive", "idle"}
        /\ pc = "idle" => (ret = "returned" /\ ArchivedAsPlanningFailure(last_error))

\* C6's case: the first step resolved, a later one did not, run_task returned
C6_Witness ==
  /\ Returned
  /\ last_error = "not_executable_tool_not_registered"
  /\ Len(planned) >= 2
  /\ planned[1].tool \in RegisteredTools
  /\ OnlyArchived("failed_plan")

\* the FAILED step outcomes the Executor returned in this call
FailedResults == {r \in node_results : r.status = "FAILED"}

\* C7: whatever the reason of a FAILED step outcome (selection "none", tool
\* not registered, parameter validation error, tool execution error), the run
\* ends with status FAILED, failure_cause execution_step_failed, archive
\* reason failed_execute and controller state FAILED.
C7_FailedOutcomeIsStepFailure ==
  (method = "run_task" /\ Returned /\ FailedResults # {}) =>
     /\ state = "FAILED"
     /\ ~disk.exists
     /\ OnlyArchived("failed_execute")
     /\ \A a \in archive : /\ a.state.status = "FAILED"
                           /\ a.state.failure_cause = "execution_step_failed"

\* C8: while the tool of a step is being invoked, the task file has
\* current_step set to that step.
C8_CurrentStepPersistedBeforeInvocation ==
  invoking # NoInvocation =>
     /\ disk.exists
     /\ disk.current_step.set
     /\ disk.current_step.index = invoking.node.index

\* C9: in every persisted task state, through run_task and resume_task calls,
\* a current_step that is set has the index Len(completed_steps), and the
\* recorded indexes are 0, 1, 2, ... in order.
C9_CurrentStepIndexIsCompletedCount ==
  disk.exists =>
     /\ disk.current_step.set => disk.current_step.index = Len(disk.completed_steps)
     /\ \A k \in DOMAIN disk.completed_steps : disk.completed_steps[k].index = k - 1

\* the next_steps entry resume_task builds for a re-queued description
RequeuedStep(step_description) ==
  [id |-> 0, description |-> step_description, dependencies |-> {}, tool |-> ""]

\* C10: crash recovery.  A resume_task call on a task that is not terminal and
\* whose persisted current_step is populated clears current_step and puts the
\* interrupted step's description in front of the previous next_steps,
\* whatever the previous next_steps are, before any step executes.
C10_ResumeRequeuesInFlightStep ==
  [][(/\ pc = "idle"
      /\ method' = "resume_task"
      /\ run' = run + 1
      /\ disk.exists
      /\ disk.status \notin {"COMPLETED", "FAILED"}
      /\ disk.current_step.set)
     => (/\ ret' # "raised"
         /\ invoked' = {}
         /\ disk'.current_step = NoStep
         /\ disk'.next_steps =
              << RequeuedStep(disk.current_step.description) >> \o disk.next_steps)]_vars


\* C11: an exception that is not a step failure (here: the generator raises
\* while a tool is selected for a pending step) and is raised after
\* resume_task has set the state EXECUTING does not escape resume_task: the
\* call never ends by raising once it has passed its entry checks.
C11_ResumeCatchesExceptions ==
  (method = "resume_task" /\ state # "INITIALIZING") => ret # "raised"


\* C12: resume_task on a task whose persisted status is COMPLETED or FAILED
\* fails as not resumable: the call raises, the task file (with its
\* next_steps, current_step and completed_steps) and the archive are as
\* before, and no tool is invoked.
C12_TerminalTaskNotResumable ==
  [][(/\ pc = "idle"
      /\ method' = "resume_task"
      /\ run' = run + 1
      /\ disk.exists
      /\ disk.status \in {"COMPLETED", "FAILED"})
     => (/\ ret' = "raised"
         /\ pc' = "idle"
         /\ disk' = disk
         /\ archive' = archive
         /\ invoked' = {}
         /\ invoking' = NoInvocation)]_vars

\* C12's case: resume_task was called on an active file with status
\* COMPLETED (the process died between update_task and archive_task) and raised
C12_Witness ==
  /\ method = "resume_task"
  /\ pc = "idle"
  /\ ret = "raised"
  /\ state = "INITIALIZING"
  /\ disk.exists
  /\ disk.status = "COMPLETED"
  /\ disk.completed_steps # << >>


\* the tasks of a directory the supervisor has to resume: active, status
\* IN_PROGRESS, no current_step, file age at least min_age_seconds
Stalled(d) ==
  {t \in DOMAIN d : /\ d[t].lifecycle = "ACTIVE"
                    /\ d[t].status = "IN_PROGRESS"
                    /\ ~d[t].has_current_step
                    /\ d[t].old}

\* the first k entries of a sequence
FirstK(seq, k) == SubSeq(seq, 1, IF k < Len(seq) THEN k ELSE Len(seq))

\* a scan that returned resumed the first max_tasks stalled tasks of the
\* directory it found, in ascending order
SupervisorSelection ==
  scan.stage = "returned" =>
     scan.resumed = FirstK(SortedSeq(Stalled(scan.dir0)), scan.max_tasks)

\* C13: a supervisor scan resumes exactly the first max_tasks task ids, in
\* ascending order, among the active tasks with status IN_PROGRESS, no
\* current_step and age of at least min_age_seconds: when the call has ended,
\* the tasks it resumed are those, each once, and no other task.
C13_SupervisorResumesFirstStalled ==
  scan.stage \in {"returned", "raised"} =>
     scan.resumed = FirstK(SortedSeq(Stalled(scan.dir0)), scan.max_tasks)


\* C14: update_task is atomic with respect to crashes.  From the start of an
\* update_task (also the one inside complete_step) on, whether it returned,
\* raised or the process stopped at any point of it, the task file holds the
\* complete state from before the call or the complete new state, and
\* load_task succeeds on it.
C14_UpdateTaskAtomic ==
  call.op \in {"update_task", "complete_step"} =>
     /\ disk \in {call.before, call.new}
     /\ call.before.exists => ~LoadRaises(disk)

\* C14's case: the process stopped after the temporary file was opened and
\* before the replace; the task file still holds the state from before
C14_Witness ==
  /\ call.op = "update_task"
  /\ pc = "idle"
  /\ ret = "crashed"
  /\ tmp = TornFile
  /\ call.new # call.before
  /\ disk = call.before


\* C15: an update_task(task_id, patch) that returns has persisted, and
\* returns, the state it loaded with exactly the keys of the patch
\* overwritten: every key of the patch has the patch's value, every other
\* field the value from before (all of them with the empty patch); a
\* load_task by any store instance on the directory returns the persisted state.
C15_UpdateTaskOverwritesPatchKeys ==
  /\ (call.op = "update_task" /\ call.result = "state") =>
        /\ call.returned = disk
        /\ DOMAIN disk = DOMAIN call.before
        /\ \A k \in DOMAIN disk :
             disk[k] = IF k \in DOMAIN call.args THEN call.args[k] ELSE call.before[k]
        /\ call.args = [k \in {} |-> 0] => disk = call.before
  /\ (call.op = "load_task" /\ call.result = "state") => call.returned = disk

\* C15's case: an update_task with a patch of two keys returned on a task
\* that has next_steps, and changed the state
C15_Witness ==
  /\ call.op = "update_task"
  /\ call.result = "state"
  /\ pc = "idle"
  /\ DOMAIN call.args = {"current_step", "status"}
  /\ call.before.next_steps # << >>
  /\ disk # call.before


\* the record complete_step builds from its arguments and the current_step
CompletedRecord(a, current_step) ==
  [index |-> a.step_index, description |-> current_step.description,
   outcome |-> a.outcome, artifact |-> a.artifact, tool_name |-> a.tool_name]

\* C16: complete_step on a task without current_step fails (ValueError) and
\* leaves the task file as it was.  On a task with a current_step it does not
\* fail for the index, also when the given index differs from current_step's,
\* and when it has returned completed_steps is the former list with one record
\* appended (given index, current_step's description, outcome, artifact,
\* tool), current_step is null, status is IN_PROGRESS and next_steps is as before.
C16_CompleteStepAppendsOneRecord ==
  (call.op = "complete_step" /\ call.before.exists) =>
     /\ ~call.before.current_step.set =>
           (call.result = "ValueError" /\ disk = call.before /\ ret = "raised")
     /\ call.before.current_step.set =>
           /\ call.result # "ValueError"
           /\ call.result = "state" =>
                /\ disk.completed_steps =
                     Append(call.before.completed_steps,
                            CompletedRecord(call.args, call.before.current_step))
                /\ disk.current_step = NoStep
                /\ disk.status = "IN_PROGRESS"
                /\ disk.next_steps = call.before.next_steps
                /\ call.returned = disk

\* C16's case: complete_step returned for an index that is not current_step's
C16_Witness ==
  /\ call.op = "complete_step"
  /\ call.result = "state"
  /\ pc = "idle"
  /\ call.before.current_step.set
  /\ call.args.step_index # call.before.current_step.index
  /\ call.before.next_steps # << >>
  /\ Len(disk.completed_steps) = 1


\* a supervisor scan changes no entry of an archived task
SupervisorLeavesArchived ==
  [][\A t \in DOMAIN dir : dir[t].lifecycle = "ARCHIVED" => dir'[t] = dir[t]]_vars

\* C17: archive_task moves the task file, content unchanged, to the archived
\* file named by the reason, and fails without any effect when there is no
\* task file.  Once a file is archived, no later step of a store call
\* (load_task, update_task, complete_step, archive_task) or of resume_task
\* changes or removes it, and no step creates an active file again.
C17_ArchivedIsFinal ==
  [][/\ \A a \in archive : a \in archive'
     /\ (archive # {} /\ ~disk.exists) => ~disk'.exists
     /\ (call'.op = "archive_task" /\ call'.n = call.n + 1) =>
          IF disk.exists
          THEN /\ archive' = archive \cup {[reason |-> call'.args.reason, state |-> disk]}
               /\ ~disk'.exists
               /\ ret' = "returned"
          ELSE /\ archive' = archive
               /\ disk' = disk
               /\ ret' = "raised"]_vars

\* C17's case: after the task was archived, an update_task and a resume_task
\* were tried on it; both raised, the archived file is the only file
C17_Witness ==
  /\ Cardinality(archive) = 1
  /\ ~disk.exists
  /\ call.op = "update_task"
  /\ call.result = "load_error"
  /\ method = "resume_task"
  /\ ret = "raised"
  /\ \A a \in archive : a.state.status = "IN_PROGRESS"


\* the ids the entries of a plan declare, and the ids its dependencies name
\* without any entry declaring them
Declared(tasks) == {tasks[i].id : i \in DOMAIN tasks}

Undeclared(tasks) == UNION {tasks[i].dependencies : i \in DOMAIN tasks} \ Declared(tasks)

\* the reference predicate for a cycle: some non-empty set of steps in which
\* every step depends on a step of the set
HasCycleRef(tasks) ==
  \E S \in SUBSET DOMAIN tasks :
     /\ S # {}
     /\ \A i \in S : \E j \in S : tasks[j].id \in tasks[i].dependencies

\* every entry has an id and a description, and no two entries have the same id
WellFormed(tasks) ==
  /\ \A i \in DOMAIN tasks : tasks[i].id # 0 /\ tasks[i].description # 0
  /\ \A i, j \in DOMAIN tasks : tasks[i].id = tasks[j].id => i = j

\* _validate_plan has given its verdict on a plan of well-formed entries
ValidatedGraph ==
  /\ planning.verdict \in {"ok", "no_tasks", "missing_dependency", "circular_dependencies"}
  /\ WellFormed(planning.tasks)

\* C18 as stated: the validator accepts exactly the non-empty plans whose
\* dependencies are all declared and whose graph has no cycle; it rejects
\* every plan that names an undeclared id with the reason naming that id, and
\* every plan that contains a cycle with the circular-dependencies reason.
C18_ValidatorEqualsReference ==
  ValidatedGraph =>
     /\ planning.verdict = "ok" <=>
          (/\ planning.tasks # << >>
           /\ Undeclared(planning.tasks) = {}
           /\ ~HasCycleRef(planning.tasks))
     /\ Undeclared(planning.tasks) # {} =>
          (/\ planning.verdict = "missing_dependency"
           /\ planning.named \in Undeclared(planning.tasks))
     /\ HasCycleRef(planning.tasks) => planning.verdict = "circular_dependencies"

\* C18 amended: as C18, but the circular-dependencies reason is given to the
\* plans that contain a cycle and name no undeclared id; a plan with both
\* defects is rejected with the reason naming the undeclared id.
C18_ValidatorEqualsReferenceAmended ==
  ValidatedGraph =>
     /\ planning.verdict = "ok" <=>
          (/\ planning.tasks # << >>
           /\ Undeclared(planning.tasks) = {}
           /\ ~HasCycleRef(planning.tasks))
     /\ Undeclared(planning.tasks) # {} =>
          (/\ planning.verdict = "missing_dependency"
           /\ planning.named \in Undeclared(planning.tasks))
     /\ (HasCycleRef(planning.tasks) /\ Undeclared(planning.tasks) = {}) =>
          planning.verdict = "circular_dependencies"

\* C18's case: a plan whose first step depends on nothing and whose second
\* and third steps depend on each other was rejected as circular
C18_Witness ==
  /\ planning.verdict = "circular_dependencies"
  /\ planning.result = "raised"
  /\ Len(planning.tasks) = 3
  /\ planning.tasks[1].dependencies = {}
  /\ planning.tasks[2].dependencies = {3}
  /\ planning.tasks[3].dependencies = {2}


\* C19: the validator rejects every plan without a non-empty step list and
\* every plan in which an entry has no id or no description or in which two
\* entries have the same id; so the next_steps generate_plan persists are
\* never such a plan.
C19_ValidatorChecksSchema ==
  /\ planning.verdict = "ok" =>
        (planning.tasks # << >> /\ WellFormed(planning.tasks))
  /\ planning.result = "returned" => WellFormed(disk.next_steps)


\* C20: generate_plan writes to the store only after the response has parsed
\* and validated.  Until then, and when the generator raised or the response
\* did not parse or validate, the directory is as before the call: no task
\* was created, an existing task has its next_steps, domain and constraints.
\* When the call has returned, the plan had the verdict ok (it is not empty,
\* names no undeclared id and has no cycle) and next_steps are the plan's
\* steps in the plan's order.  No tool is invoked.
C20_PlanPersistedAfterValidation ==
  /\ planning.stage \in {"generate", "persist"} => disk = planning.before
  /\ planning.result = "raised" => disk = planning.before
  /\ planning.result = "returned" =>
        /\ planning.verdict = "ok"
        /\ planning.tasks # << >>
        /\ Undeclared(planning.tasks) = {}
        /\ ~HasCycleRef(planning.tasks)
        /\ disk.exists
        /\ disk.next_steps = planning.tasks
        /\ disk.domain = planning.domain
        /\ disk.constraints = planning.constraints
        /\ \A k \in DOMAIN disk \ {"exists", "next_steps", "domain", "constraints"} :
             disk[k] = IF planning.given THEN planning.before[k] ELSE NewTask[k]
  /\ planning.stage # "idle" => (invoked = {} /\ invoking = NoInvocation)

\* C20's case: called for an existing task, the planner persisted a plan of
\* three steps in which the third depends on the first two
C20_Witness ==
  /\ planning.result = "returned"
  /\ planning.given
  /\ planning.before.next_steps # << >>
  /\ Len(disk.next_steps) = 3
  /\ disk.next_steps[3].dependencies = {1, 2}


\* the direct call of the registry or the executor asked for a registered
\* tool with arguments that satisfy its contract
ValidToolCall ==
  /\ exe.name \in exe.known
  /\ Violations(ToolSchemas[exe.name], exe.params) = {}

\* C21: call_tool on a name that is not registered raises ToolNotFoundError;
\* on arguments that violate the tool's contract it raises
\* ToolParameterValidationError naming a field in violation, and the tool's
\* execute is not called; otherwise execute is called once, its result is
\* returned, and an exception it raises leaves call_tool as a
\* ToolExecutionError carrying the exception's message: no other exception
\* leaves call_tool.
C21_RegistryInvoke ==
  exe.op = "call_tool" =>
     /\ exe.attempts = 1
     /\ exe.stage = "executing" => (ValidToolCall /\ exe.executes = 1)
     /\ exe.stage = "done" =>
          /\ exe.name \notin exe.known =>
                /\ exe.ended = "raised"
                /\ exe.error = ToolError("ToolNotFoundError", exe.name, "not_found", "none")
                /\ exe.executes = 0
          /\ (exe.name \in exe.known /\ ~ValidToolCall) =>
                /\ exe.ended = "raised"
                /\ exe.error.class = "ToolParameterValidationError"
                /\ exe.error.name = exe.name
                /\ [kind |-> exe.error.kind, field |-> exe.error.text]
                      \in Violations(ToolSchemas[exe.name], exe.params)
                /\ exe.executes = 0
          /\ ValidToolCall =>
                /\ exe.executes = 1
                /\ exe.thrown = "none" =>
                      (exe.ended = "returned"
                       /\ exe.value = ToolValue(exe.name, exe.params))
                /\ exe.thrown # "none" =>
                      /\ exe.ended = "raised"
                      /\ exe.error.class = "ToolExecutionError"
                      /\ exe.error.name = exe.name
                      /\ exe.error.text = exe.thrown
          /\ exe.ended = "raised" =>
                exe.error.class \in {"ToolNotFoundError", "ToolParameterValidationError",
                                     "ToolExecutionError"}

\* C21's case: a registered tool was called with arguments that satisfy its
\* contract, its execute raised, and call_tool raised ToolExecutionError with
\* the message
C21_Witness ==
  /\ exe.op = "call_tool"
  /\ exe.stage = "done"
  /\ exe.name = "web_search"
  /\ exe.params = [query |-> "string", max_results |-> "integer"]
  /\ exe.executes = 1
  /\ exe.thrown = "boom"
  /\ exe.error = ToolError("ToolExecutionError", "web_search", "execution_failed", "boom")


\* the exception classes of the registry
RegistryErrors ==
  {"ToolNotFoundError", "ToolParameterValidationError", "ToolExecutionError"}

\* execute_step has ended and the generator had answered with a selection
\* (an object, or a response that does not parse)
StepSelected ==
  /\ exe.op = "execute_step"
  /\ exe.stage = "done"
  /\ exe.response \in {"object", "unparseable"}

\* C22: execute_step never raises a tool error.  ToolNotFoundError,
\* ToolParameterValidationError and ToolExecutionError from the registry are
\* returned as a result with status FAILED, the tool's name and the error's
\* text; a "none" selection, a selection without tool and a response that does
\* not parse are returned as FAILED with tool "none"; a successful invocation
\* is returned as SUCCESS with the tool's result.
C22_ExecuteStepReturnsToolErrors ==
  /\ (exe.op = "execute_step" /\ exe.ended = "raised") =>
        exe.error.class \notin RegistryErrors \cup {"RuntimeError"}
  /\ StepSelected =>
        /\ exe.ended = "returned"
        /\ exe.name \in {"none", ""} =>
              /\ exe.status = "FAILED"
              /\ exe.tool = "none"
              /\ exe.error.kind = "no_suitable_tool"
        /\ (exe.name \notin {"none", ""} /\ exe.name \notin exe.known) =>
              /\ exe.status = "FAILED"
              /\ exe.tool = exe.name
              /\ exe.error = ToolError("str", exe.name, "not_found", "none")
        /\ (exe.name \in exe.known /\ ~ValidToolCall) =>
              /\ exe.status = "FAILED"
              /\ exe.tool = exe.name
              /\ exe.error.name = exe.name
              /\ [kind |-> exe.error.kind, field |-> exe.error.text]
                    \in Violations(ToolSchemas[exe.name], exe.params)
        /\ (ValidToolCall /\ exe.thrown # "none") =>
              /\ exe.status = "FAILED"
              /\ exe.tool = exe.name
              /\ exe.error = ToolError("str", exe.name, "execution_failed", exe.thrown)
        /\ (ValidToolCall /\ exe.thrown = "none") =>
              /\ exe.status = "SUCCESS"
              /\ exe.tool = exe.name
              /\ exe.value = ToolValue(exe.name, exe.params)
              /\ exe.error = NoError

\* C22's case: the generator selected text_output with a key its contract
\* does not declare; execute_step returned FAILED with the validation error
C22_Witness ==
  /\ StepSelected
  /\ exe.ended = "returned"
  /\ exe.name = "text_output"
  /\ exe.params = [text |-> "string", query |-> "string"]
  /\ exe.status = "FAILED"
  /\ exe.error = ToolError("str", "text_output", "additionalProperties", "query")
  /\ exe.executes = 0


\* C23: each execute_step call makes exactly one generator call.  When the
\* selection names a tool it makes exactly one call_tool attempt, also when
\* the attempt fails (not found, invalid arguments, the tool raised), and the
\* tool's execute runs at most once; when the selection is "none", has no
\* tool, or the response does not parse, it makes no attempt.
C23_OneAttemptPerStep ==
  exe.op = "execute_step" =>
     /\ exe.generator_calls = 1
     /\ exe.executes <= exe.attempts
     /\ exe.stage = "generate" => exe.attempts = 0
     /\ exe.stage = "executing" => (exe.attempts = 1 /\ exe.executes = 1)
     /\ StepSelected =>
          /\ exe.attempts = IF exe.name \in {"none", ""} THEN 0 ELSE 1
          /\ exe.executes = IF ValidToolCall THEN 1 ELSE 0

\* C23's case: the selected tool ran once and raised; execute_step returned
\* FAILED after one generator call and one attempt
C23_Witness ==
  /\ StepSelected
  /\ exe.name = "web_search"
  /\ exe.thrown = "timeout"
  /\ exe.status = "FAILED"
  /\ exe.generator_calls = 1
  /\ exe.attempts = 1
  /\ exe.executes = 1
  /\ exe.n = 2


\* the error of the plan-size guard, which names MAX_PLANNED_STEPS
PlanCapError == "too_many_steps_MAX_PLANNED_STEPS"

\* C24: plan-size guard.  When the validated plan has more steps than the
\* controller's MAX_PLANNED_STEPS, run_task rejects it through the planning
\* failure path (state FAILED, status FAILED, failure_cause planning_invalid,
\* archive reason failed_plan, the error naming MAX_PLANNED_STEPS) and returns;
\* no tool was selected for a step and no tool was invoked.  A plan within the
\* cap is not rejected for its size.
C24_PlanSizeGuard ==
  /\ (method = "run_task" /\ Len(plan) > caps.planned) =>
        /\ state = "FAILED"
        /\ last_error = PlanCapError
        /\ planned = << >>
        /\ invoked = {}
        /\ node_results = {}
        /\ invoking = NoInvocation
        /\ pc \in {"planfail_update", "planfail_archive", "idle"}
        /\ pc = "planfail_archive" =>
             /\ disk.status = "FAILED"
             /\ disk.failure_cause = "planning_invalid"
             /\ disk.error = PlanCapError
        /\ pc = "idle" => (ret = "returned" /\ ArchivedAsPlanningFailure(PlanCapError))
  /\ last_error = PlanCapError => Len(plan) > caps.planned

\* C24's case: a controller whose cap is 2 was given a valid plan of three
\* steps; run_task returned with the task archived as a planning failure
C24_Witness ==
  /\ Returned
  /\ method = "run_task"
  /\ caps.planned = 2
  /\ Len(plan) = 3
  /\ ArchivedAsPlanningFailure(PlanCapError)


\* the error of the execution cap, which names MAX_EXECUTED_STEPS
ExecutionCapError == "MAX_EXECUTED_STEPS_exceeded"

\* run_task has returned from a run whose workflow completed with more nodes
\* than the controller's MAX_EXECUTED_STEPS, the results up to the cap being
\* SUCCESS: the run executed more steps than the cap allows
ExecutedBeyondCap ==
  /\ Returned
  /\ method = "run_task"
  /\ Len(node_ids) > caps.executed
  /\ last_error # "workflow_failed_no_starting_nodes"
  /\ \A k \in 1 .. caps.executed :
       ResultOf(node_results, node_ids[k]).status = "SUCCESS"

\* the one archived file has status FAILED and the given failure_cause
ArchivedFailedWith(cause) ==
  /\ ~disk.exists
  /\ Cardinality(archive) = 1
  /\ \A a \in archive : a.state.status = "FAILED" /\ a.state.failure_cause = cause

\* C25 as stated: both resource-cap violations are recorded as execution
\* failures: a plan with more than MAX_PLANNED_STEPS steps and a run that
\* executes more than MAX_EXECUTED_STEPS steps each end with persisted status
\* FAILED and failure_cause execution_step_failed.
C25_CapsAreExecutionFailures ==
  /\ (Returned /\ method = "run_task" /\ Len(plan) > caps.planned) =>
        ArchivedFailedWith("execution_step_failed")
  /\ ExecutedBeyondCap => ArchivedFailedWith("execution_step_failed")

\* C25 amended: a run that executes more than MAX_EXECUTED_STEPS steps ends
\* with persisted status FAILED, failure_cause execution_step_failed, the
\* error naming MAX_EXECUTED_STEPS and archive reason failed_execute; a plan
\* with more than MAX_PLANNED_STEPS steps ends with persisted status FAILED and
\* failure_cause planning_invalid.
C25_CapsFailClosed ==
  /\ (Returned /\ method = "run_task" /\ Len(plan) > caps.planned) =>
        ArchivedFailedWith("planning_invalid")
  /\ ExecutedBeyondCap =>
        /\ state = "FAILED"
        /\ last_error = ExecutionCapError
        /\ ArchivedFailedWith("execution_step_failed")
        /\ \A a \in archive : /\ a.reason = "failed_execute"
                              /\ a.state.error = ExecutionCapError

\* C25's case: a controller whose execution cap is 1 ran a plan of two steps;
\* both tools ran, one step was recorded, the task was archived as failed
C25_Witness ==
  /\ ExecutedBeyondCap
  /\ caps.executed = 1
  /\ Len(plan) = 2
  /\ Cardinality(invoked) = 2
  /\ \A a \in archive : /\ a.reason = "failed_execute"
                        /\ Len(a.state.completed_steps) = 1


\* the persisted status of the i-th task the batch ran
BatchStatus(i) == dir[batch.task_ids[i]].status

\* C26: orchestrate_task_batch runs the goals one after another and stops
\* exactly after the first goal whose task ends FAILED: then stop_reason is
\* failure_detected, there is one task_id per goal up to and including the
\* failing one, every earlier task is archived COMPLETED, the failing one
\* FAILED, and no later goal is run.  When no task fails it runs
\* min(max_tasks, number of goals) goals and does not report failure_detected.
C26_BatchStopsAtFirstFailure ==
  batch.stage = "returned" =>
     LET ran == Len(batch.task_ids) IN
     /\ \A i \in 1 .. ran : dir[batch.task_ids[i]].lifecycle = "ARCHIVED"
     /\ \A i \in 1 .. ran - 1 : BatchStatus(i) = "COMPLETED"
     /\ IF ran > 0 /\ BatchStatus(ran) = "FAILED"
        THEN batch.stop_reason = "failure_detected"
        ELSE /\ ran = BatchLength(batch.goals, batch.max_tasks)
             /\ batch.stop_reason # "failure_detected"


\* on a directory without earlier tasks the batch behaves as C26 says, and
\* the call does not raise
BatchOnFreshDirectory ==
  (batch.stage # "idle" /\ \A t \in DOMAIN batch.dir0 : batch.dir0[t].lifecycle = "NONE")
     => (C26_BatchStopsAtFirstFailure /\ batch.stage # "raised")


\* the requests of a generate call before the last one all ended with a
\* transient error, and the call waited after each of them
RetriedOnlyTransient ==
  /\ \A k \in 1 .. Len(llm.log) - 1 : llm.log[k] \in TransientErrors
  /\ Len(llm.waits) = Len(llm.log) - 1

\* what a generate call that has ended did, as C27 says it
RetryPolicy ==
  /\ llm.requests = Len(llm.log)
  /\ llm.requests >= 1
  /\ llm.requests <= llm.max_retries
  /\ RetriedOnlyTransient
  /\ LET last == llm.log[Len(llm.log)] IN
     /\ last = "content" <=> llm.result = "returned"
     /\ last \in TransientErrors =>
          (llm.requests = llm.max_retries /\ llm.error = "LLMProviderError_after_attempts")
     /\ last = "APIError" => llm.error = "LLMProviderError_api_error"

\* C27: the generator client retries only transient errors (timeout,
\* connection, rate limit).  For every max_retries setting a generate call
\* sends the request at least once and at most max_retries times, waits
\* between consecutive requests, returns the first response with content,
\* raises LLMProviderError once the attempts are exhausted, and on a
\* non-transient API error raises at once without another request.
C27_RetriesOnlyTransient ==
  llm.stage = "done" => RetryPolicy

\* for every max_retries of at least 1 a generate call does as C27 says
RetryPolicyWhenPositive ==
  (llm.stage = "done" /\ llm.max_retries >= 1) => RetryPolicy


\* the task states on disk: the active file when it holds one, and the
\* archived files
PersistedTaskStates ==
  (IF disk.exists /\ disk # TornFile THEN {disk} ELSE {}) \cup { a.state : a \in archive }

FailureCauses == {"planning_invalid", "execution_step_failed", "controller_error"}

\* C28: in every task state persisted by the controller through the store,
\* active or archived, failure_cause and error are present only when the
\* status is FAILED, and every state persisted as FAILED carries a
\* failure_cause among planning_invalid, execution_step_failed and
\* controller_error (run_task, crashes and resume_task included).
C28_FailureFieldsOnlyWhenFailed ==
  \A s \in PersistedTaskStates :
    /\ (s.failure_cause # "absent" \/ s.error # "absent") => s.status = "FAILED"
    /\ s.status = "FAILED" => s.failure_cause \in FailureCauses

\* a task that complete_step had written as IN_PROGRESS, without failure
\* fields, is archived as FAILED with its cause and error
C28_Witness ==
  \E a \in archive :
    /\ a.state.status = "FAILED"
    /\ a.state.failure_cause = "execution_step_failed"
    /\ a.state.error # "absent"
    /\ Len(a.state.completed_steps) >= 1


\* the nodes whose execution has ended, with a result stored by the engine
FinishedNodes == { r.id : r \in node_results }

\* C30: dependency order: while a step's tool is being invoked, every step it
\* declares as a dependency has been executed by the engine and has
\* finished, for every validated plan (chains, steps sharing a dependency,
\* steps with several dependencies, independent steps).
C30_DependencyOrder ==
  invoking # NoInvocation
    => NodeOf(nodes, invoking.node).dependencies \subseteq FinishedNodes

\* the same for the plans that take _execute_linear_workflow_with_dependencies
\* (two or more steps without dependencies)
DependencyOrderInDepsMode ==
  invoking # NoInvocation /\ wf.mode = "deps"
    => NodeOf(nodes, invoking.node).dependencies \subseteq FinishedNodes


\* p is a prefix of q
IsPrefix(p, q) == Len(p) <= Len(q) /\ \A k \in DOMAIN p : p[k] = q[k]

\* C29: completed_steps is append-only: over every write of the task file
\* made by the controller's public operations, the fixed lifecycle runs
\* included, the completed_steps sequence before the write is a prefix of
\* the sequence after it (no record is changed, removed or reordered).
C29_CompletedStepsAppendOnly ==
  [][disk.exists /\ disk'.exists
       => IsPrefix(disk.completed_steps, disk'.completed_steps)]_vars

\* the same over the writes of run_task, resume_task and crashes in between,
\* and over direct calls of the store with the patches the controller sends
CompletedStepsPrefixKept ==
  [][disk.exists /\ disk # TornFile /\ disk'.exists /\ disk' # TornFile
       => IsPrefix(disk.completed_steps, disk'.completed_steps)]_vars


\* C31: stop on failure: once the execution of a step has ended FAILED, the
\* tool of no later step of the plan is invoked in that run.
C31_StopOnFailure ==
  [][\A r \in node_results :
       r.status = "FAILED"
         => \A n \in invoked' \ invoked : n.index <= r.id.index]_vars

\* what does stop at the first FAILED result is the recording: no record is
\* appended to completed_steps for a step at or after it
NoRecordAtOrAfterFailure ==
  \A r \in node_results :
    r.status = "FAILED" /\ pc \in {"record", "rec_complete", "rec_pop", "execfail_update"}
      => \A k \in 1 .. Len(node_ids) :
           node_ids[k] = r.id /\ disk.exists => Len(disk.completed_steps) < k


\* the descriptions of the steps that have a record in completed_steps
RecordedDescriptions ==
  { disk.completed_steps[k].description : k \in DOMAIN disk.completed_steps }

\* C32: at-least-once for the interrupted step only: after a crash between
\* two store operations of the execution loop, resume_task never invokes the
\* tool of a step that already has a record in completed_steps.
C32_CompletedStepNotExecutedAgain ==
  [][method = "resume_task" /\ disk.exists
       => \A n \in invoked' \ invoked :
            NodeOf(nodes, n).description \notin RecordedDescriptions]_vars


\* C33: next_steps is consumed strictly FIFO: whenever the persisted
\* next_steps gets shorter, exactly its head is removed, by the recording
\* loop, and that head is the step whose completion was just recorded (the
\* step of the node being recorded), also when pending entries were skipped
\* as not executable.
C33_NextStepsFifo ==
  [][disk.exists /\ disk'.exists /\ Len(disk'.next_steps) < Len(disk.next_steps)
       => /\ pc = "rec_pop"
          /\ disk'.next_steps = Tail(disk.next_steps)
          /\ Head(disk.next_steps).description
               = NodeOf(nodes, node_ids[idx + 1]).description]_vars

\* the part that holds: entries leave next_steps only at the head, one per
\* record, and the order of the others is kept
NextStepsHeadRemovedOnly ==
  [][disk.exists /\ disk'.exists /\ Len(disk'.next_steps) < Len(disk.next_steps)
       => /\ pc = "rec_pop"
          /\ disk'.next_steps = Tail(disk.next_steps)
          /\ Len(disk'.completed_steps) = Len(disk.completed_steps)]_vars


\* C34: the execution cap bounds the work of a run: in one run_task or
\* resume_task call the number of steps whose tool was invoked never exceeds
\* MAX_EXECUTED_STEPS, nor max_steps when the call was given one.
C34_ExecutionCapBoundsInvocations ==
  /\ Cardinality(invoked) <= caps.executed
  /\ max_steps.limited => Cardinality(invoked) <= max_steps.n

\* what the cap and max_steps do bound: the records one call appends
RecordsWithinCap ==
  [][pc = "rec_complete" => idx < caps.executed /\ (max_steps.limited => idx < max_steps.n)]_vars


\* the resume_task call has returned, every pending step became a node, and
\* every selection and every tool of the behaviour succeeded
ResumeReturnedClean ==
  /\ pc = "idle"
  /\ ret = "returned"
  /\ method = "resume_task"
  /\ faults = 0
  /\ Len(node_ids) = Len(pending)

\* C35: resume_task(task_id, max_steps=k) on a task with more than k pending
\* steps records exactly k further completed steps and leaves the task
\* active, status IN_PROGRESS, current_step null; a later resume_task without
\* max_steps by a new controller instance completes the remaining steps and
\* archives the task COMPLETED with one record per planned step.
C35_LimitedResumeThenComplete ==
  /\ ResumeReturnedClean /\ max_steps.limited /\ Len(pending) > max_steps.n
       => /\ disk.exists
          /\ archive = {}
          /\ disk.status = "IN_PROGRESS"
          /\ disk.current_step = NoStep
          /\ Len(disk.completed_steps) = Len(plan) - Len(pending) + max_steps.n
          /\ Len(disk.next_steps) = Len(pending) - max_steps.n
  /\ ResumeReturnedClean /\ ~max_steps.limited
       => /\ ~disk.exists
          /\ \E a \in archive :
               /\ archive = {a}
               /\ a.reason = "completed"
               /\ a.state.status = "COMPLETED"
               /\ a.state.next_steps = << >>
               /\ Len(a.state.completed_steps) = Len(plan)

\* a two-step task resumed with max_steps=1 and then resumed again: archived
\* COMPLETED with two records, each the first record (index 0) of its call
C35_Witness ==
  /\ ResumeReturnedClean
  /\ resumes = MaxChainedResumes
  /\ ~max_steps.limited
  /\ ~disk.exists
  /\ \E a \in archive :
       /\ a.state.status = "COMPLETED"
       /\ Len(a.state.completed_steps) = Len(plan)
       /\ Len(plan) > 1
       /\ \A k \in DOMAIN a.state.completed_steps : a.state.completed_steps[k].index = 0

\* the task is left active after a resume_task with max_steps
LimitedResumeLeavesActive ==
  ResumeReturnedClean /\ max_steps.limited /\ Len(pending) > max_steps.n
    /\ disk.exists /\ disk.status = "IN_PROGRESS"


\* the tasks of a directory that were never started: active, status still
\* CREATED, no current_step, file age at least min_age_seconds
NeverStarted(d) ==
  {t \in DOMAIN d : /\ d[t].lifecycle = "ACTIVE"
                    /\ d[t].status = "CREATED"
                    /\ ~d[t].has_current_step
                    /\ d[t].old}

\* C36: the supervisor recovers a task that was never started: a scan that
\* returned without reaching max_tasks has resumed every active task with
\* status CREATED, no current_step and a file older than min_age_seconds;
\* its id is in the returned list and the task is archived as completed.
C36_SupervisorRecoversNeverStarted ==
  scan.stage = "returned" /\ Len(scan.resumed) < scan.max_tasks
    => \A t \in NeverStarted(scan.dir0) :
         /\ t \in SeqToSet(scan.resumed)
         /\ dir[t].lifecycle = "ARCHIVED"
         /\ dir[t].status = "COMPLETED"

\* what the scan does with such a task: nothing
NeverStartedLeftAlone ==
  scan.stage = "returned"
    => \A t \in NeverStarted(scan.dir0) :
         t \notin SeqToSet(scan.resumed) /\ dir[t] = scan.dir0[t]


\* C37: task isolation on a shared controller: the tools invoked while a
\* task is processed are those of the nodes built from that task's own
\* pending steps.
C37_TaskIsolation ==
  invoking # NoInvocation => invoking.node \in SeqToSet(node_ids)


\* C38: record fidelity: the current_step persisted for a step and the record
\* appended to completed_steps carry the description of the step whose node
\* is being recorded, with the tool name and artifact of that node's result.
C38_RecordFidelity ==
  /\ pc = "rec_complete"
       => disk.current_step.description = NodeOf(nodes, node_ids[idx + 1]).description
  /\ pc = "rec_pop"
       => LET rec == disk.completed_steps[Len(disk.completed_steps)]
              res == ResultOf(node_results, node_ids[idx + 1])
          IN /\ rec.description = NodeOf(nodes, node_ids[idx + 1]).description
             /\ rec.tool_name = res.tool_name
             /\ rec.artifact = res.payload

\* the same for the first step a call records, and for the tool name and
\* the artifact of every record
FirstRecordFidelity ==
  pc = "rec_pop"
    => LET rec == disk.completed_steps[Len(disk.completed_steps)]
           res == ResultOf(node_results, node_ids[idx + 1])
       IN /\ idx = 0 => rec.description = NodeOf(nodes, node_ids[idx + 1]).description
          /\ rec.tool_name = res.tool_name
          /\ rec.artifact = res.payload


\* the process has stopped and the active file has a terminal status
Stranded ==
  pc = "idle" /\ disk.exists /\ disk.status \in {"COMPLETED", "FAILED"}

\* C39: no task is stranded in a terminal status: when the process stops
\* between persisting status COMPLETED or FAILED and archiving the file, a
\* later resume_task eventually archives the task.
C39_NoTaskStranded ==
  Stranded ~> ~disk.exists

\* what a resume_task call does with such a task: it raises and changes
\* nothing on disk
StrandedTaskStaysStranded ==
  [][Stranded => Stranded' /\ disk' = disk /\ archive' = archive]_vars


\* execute_workflow has returned, with status completed or failed
WorkflowReturned == method = "execute_workflow" /\ pc = "idle" /\ ret = "returned"

\* C40: execute_workflow terminates for every finite set of registered
\* nodes: once called it eventually returns (status completed or failed),
\* also when several nodes have no dependencies and some node depends on an
\* executed node and on an unregistered id or on a node of a cycle.
C40_ExecuteWorkflowTerminates ==
  (method = "execute_workflow") ~> WorkflowReturned

\* what does hold: with at most one node without dependencies the call
\* returns
SingleStartTerminates ==
  (method = "execute_workflow" /\ wf.mode # "deps") ~> (WorkflowReturned \/ wf.mode = "deps")

\* where the call stays when it does not return: in the "while pending" loop
\* with pending nodes of which none is ready
SpinsOnlyWithPendingUnready ==
  pc = "wf_spin" =>
    /\ wf.mode = "deps"
    /\ wf.pending # {}
    /\ \A n \in wf.pending : ~(NodeOf(nodes, n).dependencies \subseteq wf.executed)

=============================================================================
